---- MODULE Spec2Model ----
(***************************************************************************)
(* Model of the GitLab -> GitHub migration scripts under                   *)
(* src/gitlab/migration2gh (relationship, comment and milestone mappers)   *)
(* and of the rate-limit handler of src/github/migrate-custom-props.       *)
(*                                                                         *)
(* Spec        the three appliers (apply-relationships, apply-nesting,     *)
(*             apply-milestones), run up to twice over a ledger             *)
(*             and a target tracker.                                       *)
(* SpecExtract get_issue_relationships of the relationship mapper: the     *)
(*             evidence of one pass over the issues and its deduplication. *)
(* SpecMatch   the matchers of the comment and milestones mappers applied  *)
(*             to a source issue and the issues and milestones of a target.*)
(* SpecClient  the clients of the remote APIs under a clock: the three     *)
(*             paginated_api_call, the page loop of migrate-custom-props   *)
(*             behind its RateLimitHandler, and create_github_milestones   *)
(*             run up to twice over a milestone map.                       *)
(* SpecMain    one process of the relationship mapper, from its command    *)
(*             line and environment to its exit status.                    *)
(***************************************************************************)
EXTENDS Integers, Sequences, FiniteSets, TLC

\* ------------------------------------------------------------------ bounds
MaxRows == 2      \* rows of a ledger file
MaxFaults == 1    \* remote calls answered by a fault, over one behaviour
MaxRetries == 1   \* rate-limit answers in a row to one request
MaxMentions == 2  \* relationship phrases in an issue description
MaxLinks == 1     \* link objects of an issue
MaxNotes == 1     \* comments of an issue
MaxPages == 3     \* pages of a remote collection
MaxThread == 3    \* notes of a discussion thread
ClockWrap == 7    \* ticks after which the clock of a query without log wraps
TicksPerSecond == 2  \* resolution of the clock

Runs == {1, 2}    \* consecutive runs of an applier over the same ledger

Issues == {1, 2}  \* issue numbers of the migrated project

\* ------------------------------------------------------------- small helpers
Max(a, b) == IF a >= b THEN a ELSE b

SeqsUpTo(S, n) == UNION { [1..k -> S] : k \in 0..n }

\* int(): the CSV reader yields strings; int() raises ValueError on a
\* string that is not a decimal numeral.
IsInt(s) == s \in {"1", "2", "3"}

IntOf(s) == CASE s = "1" -> 1 [] s = "2" -> 2 [] s = "3" -> 3

\* str() of a number of the target tracker, as csv.DictWriter writes it
StrOf(n) == CASE n = 501 -> "501" [] n = 502 -> "502" [] n = 503 -> "503"
              [] n = 504 -> "504" [] n = 1 -> "1" [] n = 2 -> "2" [] n = 3 -> "3"
              [] n = 4 -> "4" [] OTHER -> "0"

\* str.lower() and str.strip() on the titles of the model
Lower(t) == CASE t = "Fix login" -> "fix login" [] t = "FIX LOGIN " -> "fix login "
              [] t = "Add docs" -> "add docs" [] t = "V1" -> "v1"
              [] t = "Beta" -> "beta" [] OTHER -> t

Strip(t) == CASE t = "fix login " -> "fix login" [] t = "FIX LOGIN " -> "FIX LOGIN"
              [] OTHER -> t

\* ================================================================ variables
VARIABLES
  script,        \* which CLI is running: "relationship", "comment", "milestones"
  ledger,        \* the rows of the ledger file on disk
  gitlab_issues, \* source tracker: the issues of the project, in listing order
  github_issues, \* target tracker: issue number -> "issue" | "pull_request" | "missing"
  github_titles, \* target tracker: issue number -> title
  github_milestones, \* target tracker: the milestones of the repository
  run,           \* number of applier runs started so far
  diagnostic,    \* --diagnostic flag of the current run
  pc,            \* position of the current run
  relationships, \* apply-relationships: rows loaded by the current run
  gitlab_comments,   \* apply-nesting: rows loaded by the current run
  issue_map,     \* apply-nesting: gitlab_to_github_issue_map
  milestone_map, \* apply-milestones: GitLab milestone id -> GitHub milestone number
  unique_relationships, \* create-map: the dict of get_issue_relationships, as
                 \* its (key, value) items in insertion order
  i,             \* index of the next row / issue to process
  success_count, error_count, skipped_count, not_found_count,
  disp,          \* what the current run did with each record it handled
  history,       \* one record per finished run
  requests,      \* every mutating request (POST/PATCH) sent to the target tracker
  faulted,       \* a remote call of the current run was answered by a fault
  faults,        \* remote calls answered by a fault so far
  now,           \* time.time(), in ticks
  calls,         \* every request of an API client, with the time it was sent
  page,          \* paginated_api_call: the page to request next
  results,       \* paginated_api_call: the records accumulated
  server,        \* the remote collection that is being listed
  handler,       \* migrate-custom-props: the RateLimitHandler
  rows,          \* create_github_milestones: the rows read from the ledger
  args,          \* main: the parsed command line
  environ,       \* main: os.environ
  exit_code      \* main: the value handed to exit(), Running until then

envVars  == <<script, gitlab_issues, github_issues, github_titles, github_milestones>>
relVars  == <<relationships>>
nestVars == <<gitlab_comments, issue_map>>
milVars  == <<milestone_map>>
extVars  == <<unique_relationships>>
netVars  == <<now, calls, page, results, server, handler, rows>>
mainVars == <<args, environ, exit_code>>
countVars == <<success_count, error_count, skipped_count, not_found_count>>

vars == <<script, ledger, gitlab_issues, github_issues, github_titles,
          github_milestones, run, diagnostic, pc,
          relationships, gitlab_comments, issue_map, milestone_map,
          unique_relationships, i,
          success_count, error_count, skipped_count, not_found_count,
          disp, history, requests, faulted, faults,
          now, calls, page, results, server, handler, rows,
          args, environ, exit_code>>

\* answers of a tracker to a GET: "ok" is the answer its state determines,
\* "error" a non-200 status or an exception raised by requests
GetAnswers == {"ok", "error"}

\* answers to a POST or PATCH: success (201/200), rate limit (403 with a
\* rate-limit message, or 429), any other status, or an exception
PostAnswers == {"created", "rate_limited_403", "rate_limited_429", "rejected", "exception"}

Fault(answer) == IF answer \in {"ok", "created"} THEN 0 ELSE 1

Counts == <<success_count, error_count, not_found_count, skipped_count>>

\* what is remembered of a run when it returns
FinishedRun(returned, completed, loaded) ==
  [diagnostic |-> diagnostic, returned |-> returned, completed |-> completed,
   disp |-> disp, faulted |-> faulted, rows |-> loaded]

StartCounters ==
  /\ run' = run + 1
  /\ success_count' = 0 /\ error_count' = 0
  /\ skipped_count' = 0 /\ not_found_count' = 0
  /\ disp' = <<>>
  /\ faulted' = FALSE

\* ================================================= relationship mapper: data
\* github_relationship_action written by save_relationships_to_map
GithubActionFor(relationship_type) ==
  IF relationship_type = "blocks" THEN "Blocking"
  ELSE IF relationship_type \in {"is_blocked_by", "blocked_by", "depends_on", "relates_to"}
       THEN "Blocked by"
       ELSE "Comment"

RelRow(src, tgt, ty, action, status) ==
  [src |-> src, tgt |-> tgt, type |-> ty, action |-> action, status |-> status]

\* Rows of relationships-map.csv: as written by create-map (status pending,
\* action derived from the type), and as a person may leave them after
\* editing the file between the two phases.
RelRows ==
  { RelRow("1", "2", ty, GithubActionFor(ty), "pending") :
      ty \in {"blocks", "is_blocked_by", "relates_to"} }
  \cup { RelRow("2", "1", "duplicates", "Comment", "applied"),
         RelRow("1", "abc", "relates_to", "Blocked by", "pending"),
         RelRow("abc", "2", "duplicates", "Comment", "pending"),
         RelRow("2", "1", "duplicates", "Archive", "pending") }

IssueKinds == {"issue", "pull_request", "missing"}

\* target trackers of apply-relationships: issue 1 is a plain issue,
\* issue 2 is an issue, a pull request or does not exist
RelTrackers == { [n \in Issues |-> IF n = 1 THEN "issue" ELSE k] : k \in IssueKinds }

GlobalId(n) == 100 + n

NoDetails == [id |-> 0, is_pull_request |-> FALSE, found |-> FALSE]

\* get_issue_details: None unless the GET returns 200
get_issue_details(issue_number, answer) ==
  IF answer = "ok" /\ issue_number \in DOMAIN github_issues
                   /\ github_issues[issue_number] # "missing"
  THEN [id |-> GlobalId(issue_number),
        is_pull_request |-> github_issues[issue_number] = "pull_request",
        found |-> TRUE]
  ELSE NoDetails

NoPost == <<>>

Result(success, message, post, nfaults) ==
  [success |-> success, message |-> message, post |-> post, nfaults |-> nfaults]

\* apply_issue_relationship without the test of is_pull_request
apply_issue_relationship_NoPrCheck(src, tgt, relationship_type, g1, g2, p) ==
  IF relationship_type \notin {"is_blocked_by", "blocked_by", "depends_on", "relates_to", "blocks"}
  THEN Result(FALSE, "unsupported_type", NoPost, 0)
  ELSE
    LET blocked  == IF relationship_type = "blocks" THEN tgt ELSE src
        blocking == IF relationship_type = "blocks" THEN src ELSE tgt
        blocked_details  == get_issue_details(blocked, g1)
        blocking_details == get_issue_details(blocking, g2)
        getfaults == Fault(g1) + Fault(g2)
    IN IF ~blocked_details.found \/ ~blocking_details.found
       THEN Result(FALSE, "no_details", NoPost, getfaults)
       ELSE LET post == <<[call |-> "dependency", on |-> blocked,
                           arg |-> blocking_details.id, answer |-> p]>>
            IN IF p = "created"
               THEN Result(TRUE, "applied", post, 0)
               ELSE IF p = "exception"
               THEN Result(FALSE, "exception", post, 1)
               ELSE Result(FALSE, "api_error", post, 1)

\* apply_issue_relationship with the source issue blocked whatever the type
apply_issue_relationship_SourceBlocked(src, tgt, relationship_type, g1, g2, p) ==
  IF relationship_type \notin {"is_blocked_by", "blocked_by", "depends_on", "relates_to", "blocks"}
  THEN Result(FALSE, "unsupported_type", NoPost, 0)
  ELSE
    LET blocked  == src
        blocking == tgt
        blocked_details  == get_issue_details(blocked, g1)
        blocking_details == get_issue_details(blocking, g2)
        getfaults == Fault(g1) + Fault(g2)
    IN IF ~blocked_details.found \/ ~blocking_details.found
       THEN Result(FALSE, "no_details", NoPost, getfaults)
       ELSE IF blocked_details.is_pull_request \/ blocking_details.is_pull_request
       THEN Result(FALSE, "pull_request", NoPost, getfaults)
       ELSE LET post == <<[call |-> "dependency", on |-> blocked,
                           arg |-> blocking_details.id, answer |-> p]>>
            IN IF p = "created"
               THEN Result(TRUE, "applied", post, 0)
               ELSE IF p = "exception"
               THEN Result(FALSE, "exception", post, 1)
               ELSE Result(FALSE, "api_error", post, 1)

\* apply_issue_relationship: result {'success', 'message'} and the POST it sent
apply_issue_relationship(src, tgt, relationship_type, g1, g2, p) ==
  IF relationship_type \notin {"is_blocked_by", "blocked_by", "depends_on", "relates_to", "blocks"}
  THEN Result(FALSE, "unsupported_type", NoPost, 0)
  ELSE
    LET blocked  == IF relationship_type = "blocks" THEN tgt ELSE src
        blocking == IF relationship_type = "blocks" THEN src ELSE tgt
        blocked_details  == get_issue_details(blocked, g1)
        blocking_details == get_issue_details(blocking, g2)
        getfaults == Fault(g1) + Fault(g2)
    IN IF ~blocked_details.found \/ ~blocking_details.found
       THEN Result(FALSE, "no_details", NoPost, getfaults)
       ELSE IF blocked_details.is_pull_request \/ blocking_details.is_pull_request
       THEN Result(FALSE, "pull_request", NoPost, getfaults)
       ELSE LET post == <<[call |-> "dependency", on |-> blocked,
                           arg |-> blocking_details.id, answer |-> p]>>
            IN IF p = "created"
               THEN Result(TRUE, "applied", post, 0)
               ELSE IF p = "exception"
               THEN Result(FALSE, "exception", post, 1)
               ELSE Result(FALSE, "api_error", post, 1)

\* add_comment_fallback: POST a comment on the source issue; the tracker
\* answers 404 when the issue does not exist
add_comment_fallback(src, tgt, relationship_type, p) ==
  LET answer == IF p = "created" /\ (src \notin DOMAIN github_issues
                                     \/ github_issues[src] = "missing")
                THEN "rejected" ELSE p
      post == <<[call |-> "comment", on |-> src, arg |-> tgt, answer |-> answer]>>
  IN IF answer = "created"
     THEN Result(TRUE, "comment_added", post, 0)
     ELSE IF answer = "exception"
     THEN Result(FALSE, "comment_exception", post, Fault(p))
     ELSE Result(FALSE, "comment_failed", post, Fault(p))

\* ============================================== apply_relationships_from_map
\* open the map file, list(reader), zero the counters
RelStart ==
  /\ script = "relationship" /\ pc = "idle" /\ run + 1 \in Runs
  /\ \E d \in BOOLEAN : diagnostic' = d
  /\ StartCounters
  /\ relationships' = ledger
  /\ i' = 1
  /\ pc' = "loop"
  /\ UNCHANGED <<envVars, mainVars, extVars, netVars, ledger, nestVars, milVars,
                 history, requests, faults>>

\* an exception raised inside the loop reaches `except Exception`:
\* the function returns (0, 0, 0, 0)
RelAbort ==
  /\ history' = Append(history, FinishedRun(<<0, 0, 0, 0>>, FALSE, relationships))
  /\ pc' = "idle"
  /\ UNCHANGED <<envVars, mainVars, extVars, netVars, ledger, nestVars, milVars, relVars,
                 run, diagnostic, i, countVars, disp, requests, faulted, faults>>

\* RelRecorded with the requests of a record put before those already sent
RelRecorded_NewestFirst(result) ==
  /\ faults + result.nfaults <= MaxFaults
  /\ IF result.success
     THEN success_count' = success_count + 1 /\ UNCHANGED error_count
     ELSE error_count' = error_count + 1 /\ UNCHANGED success_count
  /\ disp' = Append(disp, result.message)
  /\ requests' = [k \in 1..Len(result.post) |->
                     [run |-> run, row |-> i] @@ result.post[k]] \o requests
  /\ faulted' = (faulted \/ result.nfaults > 0)
  /\ faults' = faults + result.nfaults
  /\ i' = i + 1
  /\ UNCHANGED <<envVars, mainVars, extVars, netVars, ledger, nestVars, milVars, relVars,
                 run, diagnostic, pc, skipped_count, not_found_count, history>>

RelRecorded(result) ==
  /\ faults + result.nfaults <= MaxFaults
  /\ IF result.success
     THEN success_count' = success_count + 1 /\ UNCHANGED error_count
     ELSE error_count' = error_count + 1 /\ UNCHANGED success_count
  /\ disp' = Append(disp, result.message)
  /\ requests' = requests \o [k \in 1..Len(result.post) |->
                     [run |-> run, row |-> i] @@ result.post[k]]
  /\ faulted' = (faulted \/ result.nfaults > 0)
  /\ faults' = faults + result.nfaults
  /\ i' = i + 1
  /\ UNCHANGED <<envVars, mainVars, extVars, netVars, ledger, nestVars, milVars, relVars,
                 run, diagnostic, pc, skipped_count, not_found_count, history>>

\* RelRecord without the test of the diagnostic flag
RelRecord_NoDryRun ==
  /\ script = "relationship" /\ pc = "loop" /\ i <= Len(relationships)
  /\ LET rel == relationships[i]
         github_action == rel.action
     IN IF ~IsInt(rel.tgt)
        THEN RelAbort
        ELSE IF TRUE
        THEN IF ~IsInt(rel.src)
             THEN RelAbort
             ELSE \E g1 \in GetAnswers, g2 \in GetAnswers, p \in PostAnswers :
                    RelRecorded(
                      IF github_action \in {"Blocked by", "Blocking"}
                      THEN apply_issue_relationship(IntOf(rel.src), IntOf(rel.tgt), rel.type, g1, g2, p)
                      ELSE add_comment_fallback(IntOf(rel.src), IntOf(rel.tgt), rel.type, p))
        ELSE RelRecorded(
               IF github_action \in {"Blocked by", "Blocking", "Comment"}
               THEN Result(TRUE, "would_apply", NoPost, 0)
               ELSE Result(FALSE, "unknown_action", NoPost, 0))

\* one iteration of `for rel in relationships`
RelRecord ==
  /\ script = "relationship" /\ pc = "loop" /\ i <= Len(relationships)
  /\ LET rel == relationships[i]
         github_action == rel.action
     IN IF ~IsInt(rel.tgt)
        THEN RelAbort
        ELSE IF ~diagnostic
        THEN IF ~IsInt(rel.src)
             THEN RelAbort
             ELSE \E g1 \in GetAnswers, g2 \in GetAnswers, p \in PostAnswers :
                    RelRecorded(
                      IF github_action \in {"Blocked by", "Blocking"}
                      THEN apply_issue_relationship(IntOf(rel.src), IntOf(rel.tgt), rel.type, g1, g2, p)
                      ELSE add_comment_fallback(IntOf(rel.src), IntOf(rel.tgt), rel.type, p))
        ELSE RelRecorded(
               IF github_action \in {"Blocked by", "Blocking", "Comment"}
               THEN Result(TRUE, "would_apply", NoPost, 0)
               ELSE Result(FALSE, "unknown_action", NoPost, 0))

\* the loop is over: print the summary and return the four counts
RelFinish ==
  /\ script = "relationship" /\ pc = "loop" /\ i > Len(relationships)
  /\ history' = Append(history, FinishedRun(Counts, TRUE, relationships))
  /\ pc' = "idle"
  /\ UNCHANGED <<envVars, mainVars, extVars, netVars, ledger, nestVars, milVars, relVars,
                 run, diagnostic, i, countVars, disp, requests, faulted, faults>>

\* ===================================================== comment mapper: data
CommentRow(iss, id, parent, status) ==
  [gitlab_issue_iid |-> iss, gitlab_comment_id |-> id,
   gitlab_parent_comment_id |-> parent, status |-> status]

\* Rows of comments-map.csv as csv.DictReader returns them: every value is
\* a string. Thread roots have an empty parent id.
CommentRows ==
  { CommentRow("1", "11", "", "not_processed"),
    CommentRow("1", "12", "11", "not_processed"),
    CommentRow("1", "12", "11", "nesting_applied"),
    CommentRow("2", "21", "", "not_processed"),
    CommentRow("2", "22", "21", "not_processed") }

\* The issues of the source project as the API returns them (JSON: iid is a
\* number); milestone is 0 when the issue has none.
Issue(iid, title, milestone) == [iid |-> iid, title |-> title, milestone |-> milestone]

\* Python ==  between a str (a CSV value) and an int (a JSON number)
PyEqStrInt(str, int) == FALSE

\* the issues the target tracker lists (pull requests included), newest first
RECURSIVE GithubIssueList(_)
GithubIssueList(n) ==
  IF n = 0 THEN <<>>
  ELSE (IF n \in DOMAIN github_issues /\ github_issues[n] # "missing"
        THEN <<[number |-> n, title |-> github_titles[n]]>> ELSE <<>>)
       \o GithubIssueList(n - 1)

\* `for github_issue in github_issues: if lower/strip titles equal: ... break`
RECURSIVE FirstTitleMatch(_, _, _)
FirstTitleMatch(gitlab_title, github_list, k) ==
  IF k > Len(github_list) THEN 0
  ELSE IF Strip(Lower(gitlab_title)) = Strip(Lower(github_list[k].title))
       THEN github_list[k].number
       ELSE FirstTitleMatch(gitlab_title, github_list, k + 1)

\* map_gitlab_to_github_issues of the comment mapper: an issue is looked up
\* only if some row of the comment map carries its iid
map_gitlab_to_github_issues(issues, comment_map, github_list) ==
  LET considered == { k \in 1..Len(issues) :
                        \E c \in 1..Len(comment_map) :
                          PyEqStrInt(comment_map[c].gitlab_issue_iid, issues[k].iid) }
      matched == { k \in considered : FirstTitleMatch(issues[k].title, github_list, 1) # 0 }
  IN [iid \in { issues[k].iid : k \in matched } |->
        FirstTitleMatch(issues[CHOOSE k \in matched : issues[k].iid = iid].title,
                        github_list, 1)]

\* the title loop of map_gitlab_to_github_issues for every issue of the
\* list: the issues that find a target, with the number found
MatchIssueTitles(issues, github_list) ==
  LET matched == { k \in 1..Len(issues) :
                     FirstTitleMatch(issues[k].title, github_list, 1) # 0 }
  IN [iid \in { issues[k].iid : k \in matched } |->
        FirstTitleMatch(issues[CHOOSE k \in matched : issues[k].iid = iid].title,
                        github_list, 1)]

\* the matcher of the comment mapper over the issues of the target
MatchTitles ==
  /\ script = "match" /\ pc = "titles"
  /\ issue_map' = MatchIssueTitles(gitlab_issues, GithubIssueList(Cardinality(Issues)))
  /\ pc' = "milestones"
  /\ UNCHANGED <<envVars, mainVars, extVars, netVars, ledger, relVars, gitlab_comments, milVars,
                 run, diagnostic, i, countVars, disp, history, requests, faulted, faults>>

\* =================================================== apply_nesting_to_issues
\* read the map, fetch the GitLab issues, map them to GitHub issues; with an
\* empty issue map the function returns (0, 0, len(gitlab_comments))
NestStart ==
  /\ script = "comment" /\ pc = "idle" /\ run + 1 \in Runs
  /\ \E d \in BOOLEAN : diagnostic' = d
  /\ StartCounters
  /\ gitlab_comments' = ledger
  /\ \E a1 \in GetAnswers, a2 \in GetAnswers :
       /\ faults + Fault(a1) + Fault(a2) <= MaxFaults
       /\ faults' = faults + Fault(a1) + Fault(a2)
       /\ issue_map' = map_gitlab_to_github_issues(
                         IF a1 = "ok" THEN gitlab_issues ELSE <<>>,
                         ledger,
                         IF a2 = "ok" THEN GithubIssueList(Cardinality(Issues)) ELSE <<>>)
  /\ pc' = IF DOMAIN issue_map' = {} THEN "aborting" ELSE "nesting"
  /\ UNCHANGED <<envVars, mainVars, extVars, netVars, ledger, relVars, milVars, i, history, requests>>

\* NestAbort, but a dry run marks every reply 'nesting_applied' and saves
\* the map before it returns
NestAbort_MarksReplies ==
  /\ script = "comment" /\ pc = "aborting"
  /\ history' = Append(history,
                  FinishedRun(<<0, 0, Len(gitlab_comments)>>, TRUE, gitlab_comments))
  /\ ledger' = IF diagnostic
               THEN [k \in 1..Len(gitlab_comments) |->
                      IF gitlab_comments[k].gitlab_parent_comment_id # ""
                      THEN [gitlab_comments[k] EXCEPT !.status = "nesting_applied"]
                      ELSE gitlab_comments[k]]
               ELSE ledger
  /\ pc' = "idle"
  /\ UNCHANGED <<envVars, mainVars, extVars, netVars, relVars, nestVars, milVars, run, diagnostic, i,
                 countVars, disp, requests, faulted, faults>>

\* "No GitLab issues could be mapped to GitHub issues. Aborting."
NestAbort ==
  /\ script = "comment" /\ pc = "aborting"
  /\ history' = Append(history,
                  FinishedRun(<<0, 0, Len(gitlab_comments)>>, TRUE, gitlab_comments))
  /\ pc' = "idle"
  /\ UNCHANGED <<envVars, mainVars, extVars, netVars, ledger, relVars, nestVars, milVars, run, diagnostic, i,
                 countVars, disp, requests, faulted, faults>>

\* =================================================== milestones mapper: data
Milestone(id, title) == [id |-> id, title |-> title]

GitlabMilestones == { Milestone(71, "V1"), Milestone(72, "Beta") }

NoMilestone == Milestone(0, "")

GithubMilestone(number, title) == [number |-> number, title |-> title]

\* milestone lists of the target repository
GithubMilestoneLists ==
  { <<>>,
    <<GithubMilestone(1, "V1")>>,
    <<GithubMilestone(1, "v1"), GithubMilestone(2, "V1")>>,
    <<GithubMilestone(1, "v1"), GithubMilestone(2, "Beta")>> }

\* first pass: `if existing.get('title') == title`; 0 if none matches
RECURSIVE FirstExact(_, _, _)
FirstExact(existing, title, k) ==
  IF k > Len(existing) THEN 0
  ELSE IF existing[k].title = title THEN existing[k].number
       ELSE FirstExact(existing, title, k + 1)

\* second pass: `if existing.get('title').lower() == title.lower()`
RECURSIVE FirstNoCase(_, _, _)
FirstNoCase(existing, title, k) ==
  IF k > Len(existing) THEN 0
  ELSE IF Lower(existing[k].title) = Lower(title) THEN existing[k].number
       ELSE FirstNoCase(existing, title, k + 1)

\* the passes of apply_milestones_to_issues: exact title, then
\* case-insensitive title; what is left is reported as not found
MatchMilestone(title, existing) ==
  IF FirstExact(existing, title, 1) # 0
  THEN FirstExact(existing, title, 1)
  ELSE FirstNoCase(existing, title, 1)

BuildMilestoneMap(issues, existing) ==
  LET used == { issues[k].milestone : k \in { n \in 1..Len(issues) : issues[n].milestone.id # 0 } }
      mapped == { m \in used : MatchMilestone(m.title, existing) # 0 }
  IN [id \in { m.id : m \in mapped } |->
        MatchMilestone((CHOOSE m \in mapped : m.id = id).title, existing)]

\* get_github_issue of the milestones mapper: None unless the GET returns 200
get_github_issue(issue_number, answer) ==
  answer = "ok" /\ issue_number \in DOMAIN github_issues
                /\ github_issues[issue_number] # "missing"

\* update_github_issue_milestone: PATCH the issue; a 403 rate-limit answer
\* is slept on and the call repeated, anything else than 200 gives None
update_github_issue_milestone(issue_number, milestone_number, retries, final) ==
  LET patch(answer) == [call |-> "milestone", on |-> issue_number,
                        arg |-> milestone_number, answer |-> answer]
  IN Result(final = "created",
            IF final = "created" THEN "updated" ELSE "update_failed",
            [k \in 1..retries |-> patch("rate_limited_403")] \o <<patch(final)>>,
            retries + Fault(final))

\* the matcher of the milestones mapper over the milestones of the target
MatchMilestones ==
  /\ script = "match" /\ pc = "milestones"
  /\ milestone_map' = BuildMilestoneMap(gitlab_issues, github_milestones)
  /\ pc' = "matched"
  /\ UNCHANGED <<envVars, mainVars, extVars, netVars, ledger, relVars, nestVars,
                 run, diagnostic, i, countVars, disp, history, requests, faulted, faults>>

\* ================================================ apply_milestones_to_issues
\* fetch the GitLab issues and the GitHub milestones, build milestone_map
MilStart ==
  /\ script = "milestones" /\ pc = "idle" /\ run + 1 \in Runs
  /\ \E d \in BOOLEAN : diagnostic' = d
  /\ StartCounters
  /\ \E a \in GetAnswers :
       /\ faults + Fault(a) <= MaxFaults
       /\ faults' = faults + Fault(a)
       /\ milestone_map' = IF a = "ok" THEN BuildMilestoneMap(gitlab_issues, github_milestones)
                           ELSE <<>>
       /\ pc' = IF a = "ok" /\ gitlab_issues # <<>> /\ DOMAIN milestone_map' # {}
                THEN "loop" ELSE "nothing"
  /\ i' = 1
  /\ UNCHANGED <<envVars, mainVars, extVars, netVars, ledger, relVars, nestVars, history, requests>>

\* no issues, no milestones listed or no milestone matched: return (0, 0, 0)
MilNothing ==
  /\ script = "milestones" /\ pc = "nothing"
  /\ history' = Append(history, FinishedRun(<<0, 0, 0>>, TRUE, gitlab_issues))
  /\ pc' = "idle"
  /\ UNCHANGED <<envVars, mainVars, extVars, netVars, ledger, relVars, nestVars, milVars, run, diagnostic, i,
                 countVars, disp, requests, faulted, faults>>

MilRecorded(kind, result) ==
  /\ faults + result.nfaults <= MaxFaults
  /\ success_count' = success_count + (IF kind = "success" THEN 1 ELSE 0)
  /\ error_count' = error_count + (IF kind = "error" THEN 1 ELSE 0)
  /\ not_found_count' = not_found_count + (IF kind = "not_found" THEN 1 ELSE 0)
  /\ disp' = Append(disp, result.message)
  /\ requests' = requests \o [k \in 1..Len(result.post) |->
                     [run |-> run, row |-> i] @@ result.post[k]]
  /\ faulted' = (faulted \/ result.nfaults > 0)
  /\ faults' = faults + result.nfaults
  /\ i' = i + 1
  /\ UNCHANGED <<envVars, mainVars, extVars, netVars, ledger, relVars, nestVars, milVars,
                 run, diagnostic, pc, skipped_count, history>>

\* one iteration of `for issue in gitlab_issues` in map_gitlab_to_github_issues
MilIssue ==
  /\ script = "milestones" /\ pc = "loop" /\ i <= Len(gitlab_issues)
  /\ LET issue == gitlab_issues[i]
         gitlab_milestone_id == issue.milestone.id
     IN IF gitlab_milestone_id = 0
        THEN MilRecorded("not_found", Result(FALSE, "no_milestone", NoPost, 0))
        ELSE IF gitlab_milestone_id \notin DOMAIN milestone_map
        THEN MilRecorded("not_found", Result(FALSE, "no_mapping", NoPost, 0))
        ELSE \E g \in GetAnswers :
               IF ~get_github_issue(issue.iid, g)
               THEN MilRecorded("not_found", Result(FALSE, "issue_not_found", NoPost, Fault(g)))
               ELSE IF diagnostic
               THEN MilRecorded("success", Result(TRUE, "would_update", NoPost, 0))
               ELSE \E retries \in 0..MaxRetries,
                       final \in PostAnswers \ {"rate_limited_403"} :
                      LET result == update_github_issue_milestone(
                                      issue.iid, milestone_map[gitlab_milestone_id],
                                      retries, final)
                      IN MilRecorded(IF result.success THEN "success" ELSE "error", result)

\* print the summary and return (success_count, error_count, not_found_count)
MilFinish ==
  /\ script = "milestones" /\ pc = "loop" /\ i > Len(gitlab_issues)
  /\ history' = Append(history,
                  FinishedRun(<<success_count, error_count, not_found_count>>, TRUE, gitlab_issues))
  /\ pc' = "idle"
  /\ UNCHANGED <<envVars, mainVars, extVars, netVars, ledger, relVars, nestVars, milVars, run, diagnostic, i,
                 countVars, disp, requests, faulted, faults>>

\* ================================================== get_issue_relationships
\* relation_patterns, in the order of the dict: a text is a sequence of
\* phrases, each matched by exactly one pattern and carrying the digits of
\* its group(1)
Patterns == <<"relates_to", "blocks", "is_blocked_by", "duplicates",
              "is_duplicated_by", "depends_on", "is_dependency_for">>

Mention(rel_type, digits) == [rel_type |-> rel_type, digits |-> digits]

Mentions == { Mention("relates_to", "2"), Mention("relates_to", "02"),
              Mention("blocks", "2"), Mention("relates_to", "1"),
              Mention("blocks", "01") }

\* int(match.group(1))
IntOfDigits(digits) ==
  CASE digits \in {"1", "01"} -> 1 [] digits \in {"2", "02"} -> 2

Link(iid, link_type) == [iid |-> iid, link_type |-> link_type]

Links == { Link(2, "relates_to"), Link(2, "blocks") }

\* a source issue with its description, link objects and comment bodies
SourceIssue(iid, description, links, notes) ==
  [iid |-> iid, description |-> description, links |-> links, notes |-> notes]

Evidence(source, target, rel_type, provenance) ==
  [source_issue_iid |-> source, target_issue_iid |-> target,
   relationship_type |-> rel_type, relationship_source |-> provenance]

\* `for link in links`: one api_link relationship per link object
RECURSIVE LinkEvidence(_, _, _)
LinkEvidence(issue_iid, links, k) ==
  IF k > Len(links) THEN <<>>
  ELSE <<Evidence(issue_iid, links[k].iid, links[k].link_type, "api_link")>>
       \o LinkEvidence(issue_iid, links, k + 1)

\* MatchEvidence without `if related_issue_iid == issue_iid: continue`
RECURSIVE MatchEvidence_KeepsSelf(_, _, _, _, _)
MatchEvidence_KeepsSelf(issue_iid, rel_type, text, provenance, k) ==
  IF k > Len(text) THEN <<>>
  ELSE (IF text[k].rel_type = rel_type
        THEN <<Evidence(issue_iid, IntOfDigits(text[k].digits), rel_type, provenance)>>
        ELSE <<>>)
       \o MatchEvidence_KeepsSelf(issue_iid, rel_type, text, provenance, k + 1)

\* `for match in re.finditer(pattern, text)` with the self-reference test
RECURSIVE MatchEvidence(_, _, _, _, _)
MatchEvidence(issue_iid, rel_type, text, provenance, k) ==
  IF k > Len(text) THEN <<>>
  ELSE (IF text[k].rel_type = rel_type /\ IntOfDigits(text[k].digits) # issue_iid
        THEN <<Evidence(issue_iid, IntOfDigits(text[k].digits), rel_type, provenance)>>
        ELSE <<>>)
       \o MatchEvidence(issue_iid, rel_type, text, provenance, k + 1)

\* `for pattern, rel_type in relation_patterns.items()` over one text
RECURSIVE TextEvidence(_, _, _, _)
TextEvidence(issue_iid, text, provenance, p) ==
  IF p > Len(Patterns) THEN <<>>
  ELSE MatchEvidence(issue_iid, Patterns[p], text, provenance, 1)
       \o TextEvidence(issue_iid, text, provenance, p + 1)

\* `for comment in comments`
RECURSIVE NotesEvidence(_, _, _)
NotesEvidence(issue_iid, notes, k) ==
  IF k > Len(notes) THEN <<>>
  ELSE TextEvidence(issue_iid, notes[k], "comment_text", 1)
       \o NotesEvidence(issue_iid, notes, k + 1)

RelKey(rel) == <<rel.source_issue_iid, rel.target_issue_iid, rel.relationship_type>>

\* position of key in the dict, 0 if absent
RECURSIVE KeyIndex(_, _, _)
KeyIndex(dict, key, k) ==
  IF k > Len(dict) THEN 0
  ELSE IF dict[k].key = key THEN k ELSE KeyIndex(dict, key, k + 1)

\* DedupStep with `unique_relationships[key] = rel` for every item
DedupStep_LastWins(dict, rel) ==
  LET at == KeyIndex(dict, RelKey(rel), 1)
  IN IF at = 0
     THEN Append(dict, [key |-> RelKey(rel), value |-> rel])
     ELSE [dict EXCEPT ![at].value = rel]

\* `if key not in unique_relationships or source == 'api_link': dict[key] = rel`
DedupStep(dict, rel) ==
  LET at == KeyIndex(dict, RelKey(rel), 1)
  IN IF at = 0
     THEN Append(dict, [key |-> RelKey(rel), value |-> rel])
     ELSE IF rel.relationship_source = "api_link"
          THEN [dict EXCEPT ![at].value = rel]
          ELSE dict

\* the loop `for rel in relationships` from position k on
RECURSIVE Dedup(_, _, _)
Dedup(dict, rels, k) ==
  IF k > Len(rels) THEN dict
  ELSE Dedup(DedupStep(dict, rels[k]), rels, k + 1)

\* list(unique_relationships.values())
DictValues(dict) == [k \in 1..Len(dict) |-> dict[k].value]

\* one iteration of `for i, issue in enumerate(issues, 1)`: the link
\* objects, the description and the comments of the issue give evidence;
\* each item is numbered by its position in `relationships`
ExtractIssue ==
  /\ script = "create-map" /\ pc = "extract" /\ i <= Len(gitlab_issues)
  /\ LET issue == gitlab_issues[i]
         found == LinkEvidence(issue.iid, issue.links, 1)
                  \o TextEvidence(issue.iid, issue.description, "description_text", 1)
                  \o NotesEvidence(issue.iid, issue.notes, 1)
     IN relationships' = relationships \o
          [k \in 1..Len(found) |-> [nth |-> Len(relationships) + k] @@ found[k]]
  /\ i' = i + 1
  /\ UNCHANGED <<envVars, mainVars, extVars, netVars, ledger, nestVars, milVars, run, diagnostic, pc,
                 countVars, disp, history, requests, faulted, faults>>

\* after the loop: remove the duplicates and return the values of the dict
ExtractDedup ==
  /\ script = "create-map" /\ pc = "extract" /\ i > Len(gitlab_issues)
  /\ unique_relationships' = Dedup(<<>>, relationships, 1)
  /\ pc' = "extracted"
  /\ UNCHANGED <<envVars, mainVars, netVars, ledger, relVars, nestVars, milVars, run, diagnostic, i,
                 countVars, disp, history, requests, faulted, faults>>

\* ====================================================== clock and rate limits
PerPage == 100        \* params.get('per_page', 100)
MinBackoff == 60      \* max(reset_time - time.time(), 60)
Buffer == 5           \* "Add 5s buffer"
MinRemaining == 10    \* check_and_wait(min_remaining=10)
DefaultLimit == 5000  \* RateLimitHandler.limit

Min(a, b) == IF a <= b THEN a ELSE b

\* int(time.time()): the clock truncated to whole seconds
Seconds(t) == t \div TicksPerSecond

\* a number of seconds as a duration of the clock
Ticks(s) == s * TicksPerSecond

\* answers to the GET of a page: 200, a rate limit (403 with a rate-limit
\* message, or 429), any other status, or an exception raised by requests
PageAnswers == {"ok", "rate_limited_403", "rate_limited_429", "error", "exception"}

RateLimited == {"rate_limited_403", "rate_limited_429"}

\* the reset time a rate-limited answer reports, relative to the second in
\* which the answer arrives
ResetOffsets == {-1, 1, 5, 61}

\* time.sleep() suspends for at least the time asked for
Overshoots == {0, 1}

\* the clock when the script starts
StartTimes == {Ticks(20), Ticks(20) + 1}

\* one request in the log: the page or row it is for, when it was sent and
\* answered, the answer, whether the answer says the client is rate-limited
\* and until when, and the number of records the client held
Call(unit, at, done, answer, limited, reset, got) ==
  [unit |-> unit, at |-> at, done |-> done, answer |-> answer,
   limited |-> limited, reset |-> reset, got |-> got]

\* ----------------------------------------------------- the remote collection
\* records first..last of the collection, as they travel in one page
Chunk(first, last) == [first |-> first, last |-> last]

\* the page sizes a server uses when the request names none
\* (`paginated_api_call(url, headers, {})` for links and notes)
ServerDefaults == {20}

\* what the server answers to `page=p`, with pages of `size` records
ServerPage(total, size, p) ==
  IF (p - 1) * size >= total THEN <<>>
  ELSE <<Chunk((p - 1) * size + 1, Min(p * size, total))>>

\* the response carries a link to a next page
HasNext(total, size, p) == p * size < total

\* len() of a list of records
RECURSIVE RecordCount(_)
RecordCount(records) ==
  IF records = <<>> THEN 0
  ELSE (Head(records).last - Head(records).first + 1) + RecordCount(Tail(records))

\* the collections of the model: full pages followed by nothing, by a single
\* record or by 37 records
Totals == { PerPage * k + r : k \in 0..(MaxPages - 1), r \in {0, 1, 37} }

\* ------------------------------- paginated_api_call, relationship mapper
\* wait_time = max(reset_time - time.time(), 60)
wait_time(reset_time, t) == Max(Ticks(reset_time) - t, Ticks(MinBackoff))

\* LastPage that never holds
LastPage_Never(page_results) == FALSE

\* `if len(page_results) < per_page: break`
LastPage(page_results) == RecordCount(page_results) < PerPage

\* one iteration of `while True` in the paginated_api_call of the
\* relationship mapper and of the milestones mapper (the same code): the
\* request takes a tick; a rate-limited answer makes the client sleep and
\* ask for the same page again
LimitedPage(answer) ==
  /\ pc = "paging"
  /\ faults + Fault(answer) <= MaxFaults
  /\ faults' = faults + Fault(answer)
  /\ LET done == now + 1
     IN IF answer \in RateLimited
        THEN \E offset \in ResetOffsets, over \in Overshoots :
               LET reset_time == Seconds(done) + offset
               IN /\ calls' = Append(calls, Call(page, now, done, answer, TRUE,
                                                 reset_time, RecordCount(results)))
                  /\ now' = done + wait_time(reset_time, done) + over
                  /\ UNCHANGED <<page, results, pc>>
        ELSE /\ calls' = Append(calls, Call(page, now, done, answer, FALSE, 0,
                                            RecordCount(results)))
             /\ now' = done
             /\ IF answer # "ok"
                THEN pc' = "returned" /\ UNCHANGED <<page, results>>
                ELSE LET page_results == ServerPage(server.total, server.per_page, page)
                     IN IF page_results = <<>>
                        THEN pc' = "returned" /\ UNCHANGED <<page, results>>
                        ELSE /\ results' = results \o page_results
                             /\ IF LastPage(page_results)
                                THEN pc' = "returned" /\ UNCHANGED page
                                ELSE page' = page + 1 /\ UNCHANGED pc
  /\ UNCHANGED <<envVars, mainVars, extVars, ledger, relVars, nestVars, milVars, run, diagnostic,
                 i, countVars, disp, history, requests, faulted, server, handler, rows>>

RelPaginatedApiCall ==
  /\ script = "relationship-pages"
  /\ \E answer \in PageAnswers : LimitedPage(answer)

MilPaginatedApiCall ==
  /\ script = "milestones-pages"
  /\ \E answer \in PageAnswers : LimitedPage(answer)

\* the same iteration with the clock read modulo ClockWrap ticks and no log
\* of the requests: what the loop does next depends on neither
UnloggedLimitedPage(answer) ==
  /\ pc = "paging"
  /\ LET done == now + 1
     IN IF answer \in RateLimited
        THEN \E offset \in ResetOffsets, over \in Overshoots :
               LET reset_time == Seconds(done) + offset
               IN /\ now' = (done + wait_time(reset_time, done) + over) % ClockWrap
                  /\ UNCHANGED <<page, results, pc>>
        ELSE /\ now' = done % ClockWrap
             /\ IF answer # "ok"
                THEN pc' = "returned" /\ UNCHANGED <<page, results>>
                ELSE LET page_results == ServerPage(server.total, server.per_page, page)
                     IN IF page_results = <<>>
                        THEN pc' = "returned" /\ UNCHANGED <<page, results>>
                        ELSE /\ results' = results \o page_results
                             /\ IF LastPage(page_results)
                                THEN pc' = "returned" /\ UNCHANGED page
                                ELSE page' = page + 1 /\ UNCHANGED pc
  /\ UNCHANGED <<envVars, mainVars, extVars, ledger, relVars, nestVars, milVars, run, diagnostic,
                 i, countVars, disp, history, requests, faulted, faults, calls, server,
                 handler, rows>>

RelPagesForever ==
  /\ script = "relationship-pages"
  /\ \E answer \in PageAnswers : UnloggedLimitedPage(answer)

MilPagesForever ==
  /\ script = "milestones-pages"
  /\ \E answer \in PageAnswers : UnloggedLimitedPage(answer)

\* ------------------------------------ paginated_api_call, comment mapper
\* one iteration of `while True`: a 200 with records is kept and the loop
\* goes on when the response links to a next page; every other answer ends
\* the loop
ComPaginatedApiCall ==
  /\ script = "comment-pages" /\ pc = "paging"
  /\ \E answer \in PageAnswers, offset \in ResetOffsets :
       /\ answer \notin RateLimited => offset = 1
       /\ faults + Fault(answer) <= MaxFaults
       /\ faults' = faults + Fault(answer)
       /\ calls' = Append(calls,
                     Call(page, now, now + 1, answer, answer \in RateLimited,
                          IF answer \in RateLimited THEN Seconds(now + 1) + offset ELSE 0,
                          RecordCount(results)))
       /\ now' = now + 1
       /\ IF answer # "ok"
          THEN pc' = "returned" /\ UNCHANGED <<page, results>>
          ELSE LET page_results == ServerPage(server.total, server.per_page, page)
               IN IF page_results = <<>>
                  THEN pc' = "returned" /\ UNCHANGED <<page, results>>
                  ELSE /\ results' = results \o page_results
                       /\ IF HasNext(server.total, server.per_page, page)
                          THEN page' = page + 1 /\ UNCHANGED pc
                          ELSE pc' = "returned" /\ UNCHANGED page
  /\ UNCHANGED <<envVars, mainVars, extVars, ledger, relVars, nestVars, milVars, run, diagnostic,
                 i, countVars, disp, history, requests, faulted, server, handler, rows>>

\* the same iteration with the clock read modulo ClockWrap ticks and no log
ComPagesForever ==
  /\ script = "comment-pages" /\ pc = "paging"
  /\ \E answer \in PageAnswers :
       /\ now' = (now + 1) % ClockWrap
       /\ IF answer # "ok"
          THEN pc' = "returned" /\ UNCHANGED <<page, results>>
          ELSE LET page_results == ServerPage(server.total, server.per_page, page)
               IN IF page_results = <<>>
                  THEN pc' = "returned" /\ UNCHANGED <<page, results>>
                  ELSE /\ results' = results \o page_results
                       /\ IF HasNext(server.total, server.per_page, page)
                          THEN page' = page + 1 /\ UNCHANGED pc
                          ELSE pc' = "returned" /\ UNCHANGED page
  /\ UNCHANGED <<envVars, mainVars, extVars, ledger, relVars, nestVars, milVars, run, diagnostic,
                 i, countVars, disp, history, requests, faulted, faults, calls, server,
                 handler, rows>>

\* ------------------------------------------------------- migrate-custom-props
\* RateLimitHandler.__init__
RateLimitHandler == [remaining |-> DefaultLimit, reset_time |-> 0, limit |-> DefaultLimit]

\* the X-RateLimit-Remaining header of an answer
RemainingValues == {0, MinRemaining, MinRemaining + 1}

\* check_and_wait at time t: the handler and the clock afterwards
check_and_wait(self, t, over) ==
  IF self.remaining <= MinRemaining
  THEN LET wait == Max(0, self.reset_time - Seconds(t)) + Buffer
       IN IF wait > 0
          THEN [self |-> [self EXCEPT !.remaining = self.limit],
                now |-> t + Ticks(wait) + over]
          ELSE [self |-> self, now |-> t]
  ELSE [self |-> self, now |-> t]

\* one iteration of `while True` in get_source_repos_with_properties:
\* check_and_wait, then make_api_request (check_and_wait again, the GET,
\* update_from_headers), then the status of the answer
CustomPropsPage ==
  /\ script = "custom-props" /\ pc = "paging"
  /\ \E answer \in {"ok", "rate_limited_403", "error"}, remaining \in RemainingValues,
        offset \in ResetOffsets, over \in Overshoots :
       LET low == IF remaining <= MinRemaining THEN 1 ELSE 0
           first == check_and_wait(handler, now, over)
           second == check_and_wait(first.self, first.now, over)
           done == second.now + 1
           reset_time == Seconds(done) + offset
       IN /\ handler.remaining > MinRemaining => over = 0
          /\ remaining > MinRemaining => offset = 61
          /\ faults + Fault(answer) + low <= MaxFaults
          /\ faults' = faults + Fault(answer) + low
          /\ handler' = [second.self EXCEPT !.remaining = remaining,
                                            !.reset_time = reset_time]
          /\ calls' = Append(calls,
                        Call(page, second.now, done, answer,
                             remaining = 0 \/ answer \in RateLimited, reset_time,
                             RecordCount(results)))
          /\ now' = done
          /\ IF answer # "ok"
             THEN pc' = "exited" /\ UNCHANGED <<page, results>>
             ELSE LET data == ServerPage(server.total, server.per_page, page)
                  IN IF data = <<>>
                     THEN pc' = "returned" /\ UNCHANGED <<page, results>>
                     ELSE /\ results' = results \o data
                          /\ IF RecordCount(data) < PerPage
                             THEN pc' = "returned" /\ UNCHANGED page
                             ELSE page' = page + 1 /\ UNCHANGED pc
  /\ UNCHANGED <<envVars, mainVars, extVars, ledger, relVars, nestVars, milVars, run, diagnostic,
                 i, countVars, disp, history, requests, faulted, server, rows>>

\* --------------------------------------------------- create_github_milestones
MilestoneRow(gitlab_id, github_number, status) ==
  [gitlab_id |-> gitlab_id, github_number |-> github_number, status |-> status]

MilestoneRows == { MilestoneRow("1", "", "pending"), MilestoneRow("2", "", "pending"),
                   MilestoneRow("2", "1", "created") }

\* answers to the POST of a milestone that end create_github_milestone
CreateAnswers == {"created", "rate_limited_429", "rejected", "exception"}

\* create_github_milestone for row `unit` at time t: a 403 with a rate-limit
\* message makes it sleep and call itself; `retries` are the reset offsets
\* and the oversleeps of these answers, `final` the answer that ends it
RECURSIVE create_github_milestone(_, _, _, _, _)
create_github_milestone(unit, t, retries, final, offset) ==
  LET done == t + 1
  IN IF retries = <<>>
     THEN [calls |-> <<Call(unit, t, done, final, final \in RateLimited,
                            IF final \in RateLimited THEN Seconds(done) + offset ELSE 0,
                            0)>>,
           now |-> done,
           created |-> final = "created"]
     ELSE LET reset_time == Seconds(done) + retries[1][1]
              rest == create_github_milestone(
                        unit, done + wait_time(reset_time, done) + retries[1][2],
                        Tail(retries), final, offset)
          IN [rest EXCEPT !.calls = <<Call(unit, t, done, "rate_limited_403", TRUE,
                                           reset_time, 0)>> \o @]

\* reading the map file
CreateStart ==
  /\ script = "create-milestones" /\ pc \in {"idle", "returned", "interrupted"}
  /\ run + 1 \in Runs
  /\ run' = run + 1
  /\ rows' = ledger
  /\ success_count' = 0 /\ error_count' = 0 /\ skipped_count' = 0
  /\ milestone_map' = <<>>
  /\ disp' = <<>>
  /\ i' = 1
  /\ pc' = "creating"
  /\ UNCHANGED <<envVars, mainVars, extVars, ledger, relVars, nestVars, diagnostic,
                 not_found_count, history, requests, faulted, faults, now, calls,
                 page, results, server, handler>>

\* what a run did with a row: the status it was loaded with, the POSTs
\* sent for it, whether a milestone was created, and its number
RowOutcome(status, posts, created, number) ==
  [status |-> status, posts |-> posts, created |-> created, number |-> number]

\* CreateRow without `if row.get('status') == 'created': ... continue`
CreateRow_NoSkip ==
  /\ script = "create-milestones" /\ pc = "creating" /\ i <= Len(rows)
  /\ IF FALSE
     THEN /\ skipped_count' = skipped_count + 1
          /\ milestone_map' = (IntOf(rows[i].gitlab_id) :> IntOf(rows[i].github_number))
                              @@ milestone_map
          /\ disp' = Append(disp, RowOutcome(rows[i].status, 0, FALSE, 0))
          /\ UNCHANGED <<success_count, error_count, rows, github_milestones,
                         now, calls, faults>>
     ELSE \E retries \in SeqsUpTo(ResetOffsets \X Overshoots, MaxRetries),
             final \in CreateAnswers, offset \in ResetOffsets :
            LET made == create_github_milestone(i, now, retries, final, offset)
                number == Len(github_milestones) + 1
            IN /\ final \notin RateLimited => offset = 1
               /\ faults + Len(retries) + Fault(final) <= MaxFaults
               /\ faults' = faults + Len(retries) + Fault(final)
               /\ calls' = calls \o made.calls
               /\ now' = made.now + Ticks(1)
               /\ disp' = Append(disp, RowOutcome(rows[i].status, Len(made.calls),
                                                  made.created,
                                                  IF made.created THEN number ELSE 0))
               /\ IF made.created
                  THEN /\ github_milestones' = Append(github_milestones, number)
                       /\ rows' = [rows EXCEPT ![i].github_number = StrOf(number),
                                               ![i].status = "created"]
                       /\ milestone_map' = (IntOf(rows[i].gitlab_id) :> number)
                                           @@ milestone_map
                       /\ success_count' = success_count + 1
                       /\ UNCHANGED error_count
                  ELSE /\ error_count' = error_count + 1
                       /\ UNCHANGED <<success_count, rows, github_milestones,
                                      milestone_map>>
               /\ UNCHANGED skipped_count
  /\ i' = i + 1
  /\ UNCHANGED <<script, gitlab_issues, github_issues, github_titles, extVars, mainVars, ledger,
                 relVars, nestVars, run, diagnostic, pc, not_found_count, history,
                 requests, faulted, page, results, server, handler>>

\* one iteration of `for i, row in enumerate(rows)`
CreateRow ==
  /\ script = "create-milestones" /\ pc = "creating" /\ i <= Len(rows)
  /\ IF rows[i].status = "created"
     THEN /\ skipped_count' = skipped_count + 1
          /\ milestone_map' = (IntOf(rows[i].gitlab_id) :> IntOf(rows[i].github_number))
                              @@ milestone_map
          /\ disp' = Append(disp, RowOutcome(rows[i].status, 0, FALSE, 0))
          /\ UNCHANGED <<success_count, error_count, rows, github_milestones,
                         now, calls, faults>>
     ELSE \E retries \in SeqsUpTo(ResetOffsets \X Overshoots, MaxRetries),
             final \in CreateAnswers, offset \in ResetOffsets :
            LET made == create_github_milestone(i, now, retries, final, offset)
                number == Len(github_milestones) + 1
            IN /\ final \notin RateLimited => offset = 1
               /\ faults + Len(retries) + Fault(final) <= MaxFaults
               /\ faults' = faults + Len(retries) + Fault(final)
               /\ calls' = calls \o made.calls
               /\ now' = made.now + Ticks(1)
               /\ disp' = Append(disp, RowOutcome(rows[i].status, Len(made.calls),
                                                  made.created,
                                                  IF made.created THEN number ELSE 0))
               /\ IF made.created
                  THEN /\ github_milestones' = Append(github_milestones, number)
                       /\ rows' = [rows EXCEPT ![i].github_number = StrOf(number),
                                               ![i].status = "created"]
                       /\ milestone_map' = (IntOf(rows[i].gitlab_id) :> number)
                                           @@ milestone_map
                       /\ success_count' = success_count + 1
                       /\ UNCHANGED error_count
                  ELSE /\ error_count' = error_count + 1
                       /\ UNCHANGED <<success_count, rows, github_milestones,
                                      milestone_map>>
               /\ UNCHANGED skipped_count
  /\ i' = i + 1
  /\ UNCHANGED <<script, gitlab_issues, github_issues, github_titles, extVars, mainVars, ledger,
                 relVars, nestVars, run, diagnostic, pc, not_found_count, history,
                 requests, faulted, page, results, server, handler>>

\* "Write the updated milestone map" and return success_count
CreateSave ==
  /\ script = "create-milestones" /\ pc = "creating" /\ i > Len(rows)
  /\ ledger' = rows
  /\ history' = Append(history, FinishedRun(<<success_count>>, TRUE, ledger))
  /\ pc' = "returned"
  /\ UNCHANGED <<envVars, mainVars, extVars, netVars, relVars, nestVars, milVars, run, diagnostic,
                 i, countVars, disp, requests, faulted, faults>>

\* -------------------------------- the rewrite of the map file, step by step
\* `with open(input_file, 'w', ...)`: the file is truncated, then the header
\* is written
RewriteOpen ==
  /\ script = "create-milestones" /\ pc = "creating" /\ i > Len(rows)
  /\ history' = Append(history, FinishedRun(<<success_count>>, TRUE, ledger))
  /\ ledger' = <<>>
  /\ i' = 1
  /\ pc' = "writing"
  /\ UNCHANGED <<envVars, mainVars, extVars, netVars, relVars, nestVars, milVars, run,
                 diagnostic, countVars, disp, requests, faulted, faults>>

\* writer.writerows(rows): one more row reaches the file
RewriteRow ==
  /\ script = "create-milestones" /\ pc = "writing" /\ i <= Len(rows)
  /\ ledger' = Append(ledger, rows[i])
  /\ i' = i + 1
  /\ UNCHANGED <<envVars, mainVars, extVars, netVars, relVars, nestVars, milVars, run,
                 diagnostic, pc, countVars, disp, history, requests, faulted, faults>>

\* the file is closed and the summary printed
RewriteClose ==
  /\ script = "create-milestones" /\ pc = "writing" /\ i > Len(rows)
  /\ pc' = "returned"
  /\ UNCHANGED <<envVars, mainVars, extVars, netVars, ledger, relVars, nestVars, milVars, run,
                 diagnostic, i, countVars, disp, history, requests, faulted, faults>>

\* the process is killed or receives KeyboardInterrupt, which
\* `except Exception` does not catch: it ends where it is
Interrupt ==
  /\ script = "create-milestones" /\ pc \in {"creating", "writing"}
  /\ history' = IF pc = "creating"
                THEN Append(history, FinishedRun(<<>>, FALSE, ledger))
                ELSE [history EXCEPT ![Len(history)].completed = FALSE]
  /\ pc' = "interrupted"
  /\ UNCHANGED <<envVars, mainVars, extVars, netVars, ledger, relVars, nestVars, milVars, run,
                 diagnostic, i, countVars, disp, requests, faulted, faults>>

\* ================================================ comment mapper: create-map
\* a note of a discussion: its id and whether the tracker generated it
Note(id, system) == [id |-> id, system |-> system]

\* the ids of the notes of the two threads of the model, in thread order
NoteIds == << <<"11", "12", "13", "14">>, <<"21", "22", "23", "24">> >>

\* the threads an issue can have as its t-th discussion: one to MaxThread
\* notes, each written by a person or by the tracker
Threads(t) ==
  UNION { { [k \in 1..n |-> Note(NoteIds[t][k], flags[k])] : flags \in [1..n -> BOOLEAN] } :
          n \in 1..MaxThread }

\* an issue with its discussions
Discussed(iid, discussions) == [iid |-> iid, discussions |-> discussions]

\* ThreadComments with the parent of a reply taken from the note before it
RECURSIVE ThreadComments_Chained(_, _, _)
ThreadComments_Chained(issue_iid, notes, k) ==
  IF k > Len(notes) THEN <<>>
  ELSE LET note == notes[k]
           comment_info ==
             CommentRow(issue_iid, note.id,
                        IF k > 1 THEN notes[k - 1].id ELSE "", "not_processed")
             @@ [gitlab_comment_system |-> note.system]
       IN (IF note.system THEN <<>> ELSE <<comment_info>>)
          \o ThreadComments_Chained(issue_iid, notes, k + 1)

\* `for note in notes` from position k on: system notes are skipped, the
\* parent of a reply is notes[0]['id']
RECURSIVE ThreadComments(_, _, _)
ThreadComments(issue_iid, notes, k) ==
  IF k > Len(notes) THEN <<>>
  ELSE LET note == notes[k]
           parent_comment_id == notes[1].id
           is_reply == note.id # parent_comment_id
           comment_info ==
             CommentRow(issue_iid, note.id,
                        IF is_reply THEN parent_comment_id ELSE "", "not_processed")
             @@ [gitlab_comment_system |-> note.system]
       IN (IF note.system THEN <<>> ELSE <<comment_info>>)
          \o ThreadComments(issue_iid, notes, k + 1)

\* `for discussion in discussions` from position d on
RECURSIVE IssueComments(_, _, _)
IssueComments(issue_iid, discussions, d) ==
  IF d > Len(discussions) THEN <<>>
  ELSE (IF discussions[d] = <<>> THEN <<>> ELSE ThreadComments(issue_iid, discussions[d], 1))
       \o IssueComments(issue_iid, discussions, d + 1)

\* one iteration of `for i, issue in enumerate(issues)`
DiscussIssue ==
  /\ script = "comment-create-map" /\ pc = "discussions" /\ i <= Len(gitlab_issues)
  /\ gitlab_comments' = gitlab_comments
                        \o IssueComments(gitlab_issues[i].iid, gitlab_issues[i].discussions, 1)
  /\ i' = i + 1
  /\ UNCHANGED <<envVars, mainVars, extVars, netVars, ledger, relVars, issue_map, milVars,
                 run, diagnostic, pc, countVars, disp, history, requests, faulted, faults>>

\* get_issue_discussions returns all_comments; save_comments_to_map writes
\* one row per comment
DiscussSave ==
  /\ script = "comment-create-map" /\ pc = "discussions" /\ i > Len(gitlab_issues)
  /\ ledger' = gitlab_comments
  /\ pc' = "saved"
  /\ UNCHANGED <<envVars, mainVars, extVars, netVars, relVars, nestVars, milVars, run,
                 diagnostic, i, countVars, disp, history, requests, faulted, faults>>

\* ======================================================== the ledger as CSV
\* the columns of a comments map that matter here, in the order of `headers`
LedgerHeader == <<"gitlab_comment_id", "gitlab_comment_body", "status">>

\* comment bodies: empty, one line, a line with a comma, two lines separated
\* by LF, by CR LF, and by CR
Bodies == {"", "text", "a,b", "l1<LF>l2", "l1<CR><LF>l2", "l1<CR>l2"}

\* a row in memory: a dict, as its (key, value) items in insertion order
LedgerRow(id, body, status) ==
  <<[key |-> "gitlab_comment_id", value |-> id],
    [key |-> "gitlab_comment_body", value |-> body],
    [key |-> "status", value |-> status]>>

LedgerRows == { LedgerRow("7", body, status) : body \in Bodies, status \in {"", "pending"} }

\* row[key] of a dict
Lookup(row, key) == row[CHOOSE k \in 1..Len(row) : row[k].key = key].value

\* csv.writer: a field with a delimiter, a quote or a line break is written
\* between quotes, any other field bare; the characters are written as they
\* are (the file is opened with newline='')
CsvField(value) ==
  [quoted |-> value \in {"a,b", "l1<LF>l2", "l1<CR><LF>l2", "l1<CR>l2"}, text |-> value]

\* csv.DictWriter(fieldnames).writeheader() and writerows(): a header line
\* and one line per row, the fields in the order of fieldnames
DictWriter(fieldnames, dicts) ==
  [header |-> fieldnames,
   lines |-> [k \in 1..Len(dicts) |->
                [c \in 1..Len(fieldnames) |-> CsvField(Lookup(dicts[k], fieldnames[c]))]]]

\* open(input_file, 'r') without newline='': the text layer translates
\* CR LF and CR to LF before the csv reader sees the text
UniversalNewlines(text) ==
  CASE text = "l1<CR><LF>l2" -> "l1<LF>l2"
    [] text = "l1<CR>l2" -> "l1<LF>l2"
    [] OTHER -> text

\* csv.DictReader: one dict per line, keyed by the header in its order
DictReader(file) ==
  [k \in 1..Len(file.lines) |->
     [c \in 1..Len(file.header) |->
        [key |-> file.header[c], value |-> UniversalNewlines(file.lines[k][c].text)]]]

\* save_comments_to_map: the rows built by create-map are written
SaveLedger ==
  /\ script = "ledger" /\ pc = "built"
  /\ ledger' = DictWriter(LedgerHeader, rows)
  /\ pc' = "saved"
  /\ UNCHANGED <<envVars, mainVars, extVars, netVars, relVars, nestVars, milVars, run,
                 diagnostic, i, countVars, disp, history, requests, faulted, faults>>

\* `gitlab_comments = list(reader)`
LoadLedger ==
  /\ script = "ledger" /\ pc \in {"saved", "rewritten"}
  /\ gitlab_comments' = DictReader(ledger)
  /\ history' = Append(history, FinishedRun(<<>>, TRUE, gitlab_comments))
  /\ pc' = IF pc = "saved" THEN "loaded" ELSE "reloaded"
  /\ UNCHANGED <<envVars, mainVars, extVars, netVars, ledger, relVars, issue_map, milVars, run,
                 diagnostic, i, countVars, disp, requests, faulted, faults>>

\* "Write the updated comment map back to the file", the fieldnames being
\* the keys of the first row
RewriteLedger ==
  /\ script = "ledger" /\ pc = "loaded"
  /\ ledger' = DictWriter(IF gitlab_comments = <<>> THEN <<>>
                          ELSE [c \in 1..Len(gitlab_comments[1]) |-> gitlab_comments[1][c].key],
                          gitlab_comments)
  /\ pc' = "rewritten"
  /\ UNCHANGED <<envVars, mainVars, extVars, netVars, relVars, nestVars, milVars, run,
                 diagnostic, i, countVars, disp, history, requests, faulted, faults>>

\* ================================================ relationship mapper: main
\* the sub-commands of the parser that talk to a tracker; "" is no command
Commands == {"", "create-map", "apply-relationships"}

Args(command, diag, skip_github_validation) ==
  [command |-> command, diagnostic |-> diag,
   skip_github_validation |-> skip_github_validation]

EnvNames == {"GITLAB_API_PRIVATE_TOKEN", "GITLAB_API_ENDPOINT", "GITLAB_REPO_URL",
             "GITHUB_TOKEN", "GITHUB_REPO_URL"}

\* a complete environment; "" is what os.environ.get yields for a variable
\* that is not set
FullEnv ==
  [v \in EnvNames |->
     CASE v = "GITLAB_REPO_URL" -> "https://gitlab.example/group/project"
       [] v = "GITHUB_REPO_URL" -> "https://github.example/owner/repo"
       [] v = "GITLAB_API_ENDPOINT" -> "https://gitlab.example/api/v4"
       [] OTHER -> "token"]

\* a complete environment, or one with a variable unset, or one whose
\* repository URL has no owner/project path
Environs ==
  {FullEnv}
  \cup { [FullEnv EXCEPT ![v] = ""] : v \in EnvNames }
  \cup { [FullEnv EXCEPT ![v] = "https://example"] : v \in {"GITLAB_REPO_URL", "GITHUB_REPO_URL"} }

\* validate_env_vars: the variables it finds missing; it raises ValueError
\* when there are any
validate_env_vars(mode) ==
  LET required_vars ==
        IF mode = "create"
        THEN {"GITLAB_API_PRIVATE_TOKEN", "GITLAB_API_ENDPOINT", "GITLAB_REPO_URL"}
        ELSE IF mode = "apply-relationships"
             THEN EnvNames
             ELSE {}
  IN { v \in required_vars : environ[v] = "" }

\* len(urlparse(url).path.strip('/').split('/'))
PathParts(url) ==
  CASE url = "https://gitlab.example/group/project" -> 2
    [] url = "https://github.example/owner/repo" -> 2
    [] OTHER -> 1

\* get_gitlab_project_info raises ValueError
GitlabInfoRaises(url) == PathParts(url) < 2

\* get_github_repo_info raises ValueError; it returns None for no URL
GithubInfoRaises(url) == url # "" /\ PathParts(url) < 2

\* `return 1` of main
Exit1 ==
  /\ exit_code' = <<1>>
  /\ pc' = "exited"
  /\ UNCHANGED diagnostic

\* main, up to the point where the command starts to work on its records:
\* no command, a ValueError of the validation or of the URL parsing, or
\* the command proceeds
Main ==
  /\ script \in {"relationship", "create-map"} /\ pc = "main"
  /\ IF args.command = ""
     THEN Exit1
     ELSE IF args.command = "create-map"
     THEN IF validate_env_vars("create") # {} \/ GitlabInfoRaises(environ["GITLAB_REPO_URL"])
          THEN Exit1
          ELSE pc' = "extract" /\ UNCHANGED <<diagnostic, exit_code>>
     ELSE IF args.diagnostic /\ args.skip_github_validation
          THEN IF validate_env_vars("create") # {}
               THEN Exit1
               ELSE pc' = "idle" /\ diagnostic' = args.diagnostic /\ UNCHANGED exit_code
          ELSE IF validate_env_vars("apply-relationships") # {}
                  \/ GithubInfoRaises(environ["GITHUB_REPO_URL"])
               THEN Exit1
               ELSE pc' = "idle" /\ diagnostic' = args.diagnostic /\ UNCHANGED exit_code
  /\ UNCHANGED <<envVars, extVars, netVars, ledger, relVars, nestVars, milVars, run,
                 args, environ, i, countVars, disp, history, requests, faulted, faults>>

\* apply_relationships_from_map of the process, with the flag of its arguments
MainRelStart == run = 0 /\ RelStart /\ diagnostic' = args.diagnostic

\* save_relationships_to_map: one row per relationship, status pending
SaveMap ==
  /\ script = "create-map" /\ pc = "extracted"
  /\ LET rels == DictValues(unique_relationships)
     IN /\ ledger' = [k \in 1..Len(rels) |->
                        RelRow(StrOf(rels[k].source_issue_iid), StrOf(rels[k].target_issue_iid),
                               rels[k].relationship_type,
                               GithubActionFor(rels[k].relationship_type), "pending")]
        /\ history' = Append(history, FinishedRun(<<Len(rels)>>, TRUE, gitlab_issues))
  /\ pc' = "saved"
  /\ UNCHANGED <<envVars, mainVars, extVars, netVars, relVars, nestVars, milVars, run,
                 diagnostic, i, countVars, disp, requests, faulted, faults>>

\* MainExit with an exit status that tells that records failed
MainExit_FailOnErrors ==
  /\ \/ script = "relationship" /\ pc = "idle" /\ run = 1 /\ Len(history) = 1
     \/ script = "create-map" /\ pc = "saved"
  /\ exit_code' = IF error_count > 0 THEN <<1>> ELSE <<0>>
  /\ pc' = "exited"
  /\ UNCHANGED <<envVars, extVars, netVars, ledger, relVars, nestVars, milVars, run,
                 diagnostic, args, environ, i, countVars, disp, history, requests,
                 faulted, faults>>

\* the command returned without an exception: `return 0`
MainExit ==
  /\ \/ script = "relationship" /\ pc = "idle" /\ run = 1 /\ Len(history) = 1
     \/ script = "create-map" /\ pc = "saved"
  /\ exit_code' = <<0>>
  /\ pc' = "exited"
  /\ UNCHANGED <<envVars, extVars, netVars, ledger, relVars, nestVars, milVars, run,
                 diagnostic, args, environ, i, countVars, disp, history, requests,
                 faulted, faults>>

\* ===================================================================== Spec
NoEnvRel ==
  /\ gitlab_issues = <<>>
  /\ github_titles = [n \in Issues |-> ""]
  /\ github_milestones = <<>>

InitRel ==
  /\ script = "relationship"
  /\ ledger \in SeqsUpTo(RelRows, MaxRows)
  /\ github_issues \in RelTrackers
  /\ NoEnvRel

\* apply-nesting: the comment ledger, two source issues, and a target
\* tracker whose first issue has the same title, the same title in another
\* case, or another title
InitNest ==
  /\ script = "comment"
  /\ ledger \in SeqsUpTo(CommentRows, MaxRows)
  /\ gitlab_issues = <<Issue(1, "Fix login", NoMilestone), Issue(2, "Add docs", NoMilestone)>>
  /\ github_issues = [n \in Issues |-> "issue"]
  /\ github_titles \in { [n \in Issues |-> IF n = 1 THEN t ELSE "Add docs"] :
                           t \in {"Fix login", "FIX LOGIN ", "Other"} }
  /\ github_milestones = <<>>

\* apply-milestones works from the trackers alone: it reads no ledger
InitMil ==
  /\ script = "milestones"
  /\ ledger = <<>>
  /\ gitlab_issues \in { <<Issue(1, "Fix login", m1), Issue(2, "Add docs", m2)>> :
                           m1 \in GitlabMilestones \cup {NoMilestone},
                           m2 \in GitlabMilestones \cup {NoMilestone} }
  /\ github_issues \in RelTrackers
  /\ github_titles = [n \in Issues |-> ""]
  /\ github_milestones \in GithubMilestoneLists

\* before any command has run
FreshRun ==
  /\ run = 0 /\ diagnostic = FALSE
  /\ relationships = <<>> /\ gitlab_comments = <<>>
  /\ issue_map = <<>>
  /\ milestone_map = <<>>
  /\ unique_relationships = <<>>
  /\ i = 1
  /\ success_count = 0 /\ error_count = 0
  /\ skipped_count = 0 /\ not_found_count = 0
  /\ disp = <<>> /\ history = <<>> /\ requests = <<>>
  /\ faulted = FALSE /\ faults = 0
  /\ calls = <<>> /\ page = 1 /\ results = <<>>
  /\ handler = RateLimitHandler

Fresh == FreshRun /\ rows = <<>>

\* the functions of a script called on their own, outside main
NoMain ==
  /\ args = Args("", FALSE, FALSE) /\ environ = FullEnv /\ exit_code = <<>>

\* the appliers do not look at the clock and list no collection
NoClient ==
  /\ now = 0 /\ server = [total |-> 0, per_page |-> PerPage]

Init ==
  /\ (InitRel \/ InitNest \/ InitMil)
  /\ pc = "idle"
  /\ Fresh /\ NoClient /\ NoMain

Next ==
  \/ RelStart
  \/ RelRecord
  \/ RelFinish
  \/ NestStart
  \/ NestAbort
  \/ MilStart
  \/ MilNothing
  \/ MilIssue
  \/ MilFinish

Spec == Init /\ [][Next]_vars

\* ------------------------------------------------------------- SpecExtract
\* create-map over one issue of the project, or over the same issue listed
\* twice (it is in the 'opened' and in the 'closed' listing)
InitExtract ==
  /\ script = "create-map"
  /\ \E description \in SeqsUpTo(Mentions, MaxMentions),
        links \in SeqsUpTo(Links, MaxLinks),
        notes \in SeqsUpTo({ <<m>> : m \in Mentions }, MaxNotes),
        twice \in BOOLEAN :
       gitlab_issues = IF twice
                       THEN <<SourceIssue(1, description, links, notes),
                              SourceIssue(1, description, links, notes)>>
                       ELSE <<SourceIssue(1, description, links, notes)>>
  /\ ledger = <<>>
  /\ github_issues = [n \in Issues |-> "issue"]
  /\ github_titles = [n \in Issues |-> ""]
  /\ github_milestones = <<>>
  /\ pc = "extract"
  /\ Fresh /\ NoClient /\ NoMain

NextExtract ==
  \/ ExtractIssue
  \/ ExtractDedup

SpecExtract == InitExtract /\ [][NextExtract]_vars

\* --------------------------------------------------------------- SpecMatch
\* a source issue with a title and possibly a milestone; a target whose two
\* issues carry any of the titles and whose milestones have distinct titles
MatchMilestoneLists ==
  { <<>> }
  \cup { <<GithubMilestone(1, t)>> : t \in {"V1", "v1", "Beta"} }
  \cup { <<GithubMilestone(1, t[1]), GithubMilestone(2, t[2])>> :
           t \in { p \in {"V1", "v1", "Beta"} \X {"V1", "v1", "Beta"} : p[1] # p[2] } }

InitMatch ==
  /\ script = "match"
  /\ ledger = <<>>
  /\ gitlab_issues \in { <<Issue(1, t, m)>> :
                           t \in {"Fix login", "Add docs"},
                           m \in GitlabMilestones \cup {NoMilestone} }
  /\ github_issues \in RelTrackers
  /\ github_titles \in [Issues -> {"Fix login", "FIX LOGIN ", "Add docs"}]
  /\ github_milestones \in MatchMilestoneLists
  /\ pc = "titles"
  /\ Fresh /\ NoClient /\ NoMain

NextMatch ==
  \/ MatchTitles
  \/ MatchMilestones

SpecMatch == InitMatch /\ [][NextMatch]_vars

\* ---------------------------------------------------------------- SpecMain
\* one process of gitlab-relationship-mapper.py: a command line, an
\* environment, and the ledger and trackers the command finds
InitMain ==
  /\ \/ /\ \E d \in BOOLEAN, s \in BOOLEAN : args = Args("apply-relationships", d, s)
        /\ InitRel
     \/ /\ args = Args("", FALSE, FALSE)
        /\ script = "relationship" /\ ledger = <<>>
        /\ github_issues = [n \in Issues |-> "issue"] /\ NoEnvRel
     \/ /\ args = Args("create-map", FALSE, FALSE)
        /\ script = "create-map" /\ ledger = <<>>
        /\ \E description \in SeqsUpTo(Mentions, MaxMentions),
              links \in SeqsUpTo(Links, MaxLinks) :
             gitlab_issues = <<SourceIssue(1, description, links, <<>>)>>
        /\ github_issues = [n \in Issues |-> "issue"]
        /\ github_titles = [n \in Issues |-> ""]
        /\ github_milestones = <<>>
  /\ environ \in Environs
  /\ exit_code = <<>>
  /\ pc = "main"
  /\ Fresh /\ NoClient

NextMain ==
  \/ Main
  \/ MainRelStart
  \/ RelRecord
  \/ RelFinish
  \/ ExtractIssue
  \/ ExtractDedup
  \/ SaveMap
  \/ MainExit

SpecMain == InitMain /\ [][NextMain]_vars

\* -------------------------------------------------------------- SpecClient
\* a client of a remote API starts at some time of the clock: a
\* paginated_api_call or the page loop of migrate-custom-props on a
\* collection, or create_github_milestones on a milestone map
NoTracker ==
  /\ gitlab_issues = <<>>
  /\ github_issues = [n \in Issues |-> "issue"]
  /\ github_titles = [n \in Issues |-> ""]

InitPages ==
  /\ script \in {"relationship-pages", "milestones-pages", "comment-pages", "custom-props"}
  /\ server \in [total : Totals,
                  per_page : IF script = "relationship-pages"
                             THEN {PerPage} \cup ServerDefaults
                             ELSE {PerPage}]
  /\ ledger = <<>>
  /\ github_milestones = <<>>
  /\ pc = "paging"

InitCreate ==
  /\ script = "create-milestones"
  /\ server = [total |-> 0, per_page |-> PerPage]
  /\ ledger \in SeqsUpTo(MilestoneRows, MaxRows) \ {<<>>}
  /\ github_milestones = <<>>
  /\ pc = "idle"

InitClient ==
  /\ (InitPages \/ InitCreate)
  /\ NoTracker
  /\ now \in StartTimes
  /\ Fresh /\ NoMain

NextClient ==
  \/ RelPaginatedApiCall
  \/ MilPaginatedApiCall
  \/ ComPaginatedApiCall
  \/ CustomPropsPage
  \/ CreateStart
  \/ CreateRow
  \/ CreateSave

SpecClient == InitClient /\ [][NextClient]_vars

\* ---------------------------------------------------------------- SpecLive
\* a paginated_api_call against an endpoint that may answer each request in
\* any way, for as long as the call runs; the client is never suspended for
\* ever, so a request that can be made is made
InitLive ==
  /\ InitPages /\ script \in {"relationship-pages", "milestones-pages", "comment-pages"}
  /\ NoTracker
  /\ now \in 0..(ClockWrap - 1)
  /\ Fresh /\ NoMain

NextLive ==
  \/ RelPagesForever
  \/ MilPagesForever
  \/ ComPagesForever

SpecLive == InitLive /\ [][NextLive]_vars /\ WF_vars(NextLive)

\* -------------------------------------------------------------- SpecLedger
\* rows of a comments map are written, loaded, rewritten and loaded again
InitLedger ==
  /\ script = "ledger"
  /\ NoTracker /\ github_milestones = <<>>
  /\ ledger = DictWriter(LedgerHeader, <<>>)
  /\ rows \in SeqsUpTo(LedgerRows, MaxRows)
  /\ FreshRun /\ NoClient /\ NoMain
  /\ pc = "built"

NextLedger ==
  \/ SaveLedger
  \/ LoadLedger
  \/ RewriteLedger

SpecLedger == InitLedger /\ [][NextLedger]_vars

\* ------------------------------------------------------------- SpecDiscuss
\* create-map of the comment mapper over one issue with up to two
\* discussions; the issue is listed once, or twice (it is in the 'opened'
\* and in the 'closed' listing)
InitDiscuss ==
  /\ script = "comment-create-map"
  /\ \E discussions \in {<<>>} \cup { <<t1>> : t1 \in Threads(1) }
                        \cup { <<t1, t2>> : t1 \in Threads(1), t2 \in Threads(2) },
        twice \in BOOLEAN :
       gitlab_issues = IF twice
                       THEN <<Discussed(1, discussions), Discussed(1, discussions)>>
                       ELSE <<Discussed(1, discussions)>>
  /\ ledger = <<>>
  /\ github_issues = [n \in Issues |-> "issue"]
  /\ github_titles = [n \in Issues |-> ""]
  /\ github_milestones = <<>>
  /\ pc = "discussions"
  /\ Fresh /\ NoClient /\ NoMain

NextDiscuss ==
  \/ DiscussIssue
  \/ DiscussSave

SpecDiscuss == InitDiscuss /\ [][NextDiscuss]_vars

\* -------------------------------------------------------------- SpecCancel
\* create_github_milestones over a milestone map, run up to twice, where a
\* run can be interrupted between two rows and while it rewrites the file
InitCancel ==
  /\ InitCreate
  /\ NoTracker
  /\ now \in StartTimes
  /\ Fresh /\ NoMain

NextCancel ==
  \/ CreateStart
  \/ CreateRow
  \/ RewriteOpen
  \/ RewriteRow
  \/ RewriteClose
  \/ Interrupt

SpecCancel == InitCancel /\ [][NextCancel]_vars

\* ================================================================== claims
Mutating(run_no) == { k \in 1..Len(requests) : requests[k].run = run_no }

\* C1 -- idempotence of the relationship applier: a second live run over the
\* ledger left by a complete first live run sends no mutating request and
\* returns the same counts as the first run.
C1_SecondLiveRunIsNoOp ==
  (/\ script = "relationship"
   /\ Len(history) >= 1 /\ ~history[1].diagnostic /\ history[1].completed
   /\ run = 2 /\ ~diagnostic)
  => /\ Mutating(2) = {}
     /\ Len(history) = 2 => history[2].returned = history[1].returned

\* disposition classes of the spec: would-apply / error in a dry run,
\* applied / failed in a live run
WouldApply(d) == d = "would_apply"
Applied(d) == d \in {"applied", "comment_added"}

\* C2 -- the persisted ledger reflects what happened: when a run has
\* returned, a row whose mutation succeeded is persisted as applied, a row
\* whose mutation failed as failed, and a dry run has marked no row applied.
C2_LedgerReflectsOutcome ==
  (script \in {"relationship", "comment"} /\ pc = "idle" /\ Len(history) >= 1)
  => LET h == history[Len(history)]
     IN \A k \in 1..Len(h.disp) :
          IF h.diagnostic
          THEN ledger[k].status = "applied" => h.rows[k].status = "applied"
          ELSE ledger[k].status = (IF Applied(h.disp[k]) THEN "applied" ELSE "failed")

\* the --diagnostic flag of run r
RunMode(r) == IF r <= Len(history) THEN history[r].diagnostic ELSE diagnostic

\* C3 -- a diagnostic run of apply-relationships, apply-nesting or
\* apply-milestones sends no mutating request (POST or PATCH) to the target
\* tracker: every request the tracker received came from a live run.
C3_DiagnosticSendsNothing ==
  \A k \in 1..Len(requests) : ~RunMode(requests[k].run)

\* a dry run has handled records after a live run had sent requests
C3_Witness ==
  /\ requests # <<>>
  /\ Len(history) = 2 /\ history[2].diagnostic /\ history[2].disp # <<>>
  /\ \E k \in 1..Len(history[2].disp) :
       history[2].disp[k] \in {"would_apply", "would_update"}

\* C4 -- diagnostic parity: over the same ledger and an unchanged target
\* tracker that answers every request as its state determines, the dry run
\* reports a row as would-apply exactly when the live run applies it.
C4_DiagnosticParity ==
  (/\ script = "relationship"
   /\ Len(history) = 2
   /\ history[1].diagnostic /\ ~history[2].diagnostic
   /\ history[1].completed /\ history[2].completed
   /\ ~history[2].faulted)
  => \A k \in 1..Len(history[2].rows) :
       WouldApply(history[1].disp[k]) <=> Applied(history[2].disp[k])

\* C5 -- failure isolation in apply-relationships: whatever fails on one
\* row, the run handles every row of the ledger and returns counts that
\* cover every row handled.
C5_FailureIsolation ==
  script = "relationship" =>
    \A r \in 1..Len(history) :
      /\ Len(history[r].disp) = Len(history[r].rows)
      /\ history[r].returned[1] + history[r].returned[2] = Len(history[r].rows)

\* the positions of the evidence that has the key of rel
SameKey(rel) ==
  { k \in 1..Len(relationships) : RelKey(relationships[k]) = RelKey(rel) }

Earliest(S) == CHOOSE k \in S : \A other \in S : k <= other

\* C6: the result of get_issue_relationships holds exactly one relationship
\* for every key of the evidence and nothing else; the relationship kept for
\* a key is one of api_link provenance when the key has such evidence, and
\* otherwise the first item of the evidence with that key.
C6_OnePerKeyApiFirst ==
  (script = "create-map" /\ pc = "extracted") =>
    LET out == DictValues(unique_relationships)
    IN /\ \A k \in 1..Len(relationships) :
            Cardinality({ j \in 1..Len(out) : RelKey(out[j]) = RelKey(relationships[k]) }) = 1
       /\ \A j \in 1..Len(out) :
            /\ out[j].nth \in SameKey(out[j])
            /\ relationships[out[j].nth] = out[j]
            /\ IF \E k \in SameKey(out[j]) : relationships[k].relationship_source = "api_link"
               THEN out[j].relationship_source = "api_link"
               ELSE out[j].nth = Earliest(SameKey(out[j]))

\* a result in which one key had a link object and text, and another key had
\* text only, more than once
C6_Witness ==
  /\ script = "create-map" /\ pc = "extracted"
  /\ \E j \in 1..Len(unique_relationships) :
       LET same == SameKey(unique_relationships[j].value)
       IN /\ \E k \in same : relationships[k].relationship_source = "api_link"
          /\ \E k \in same : relationships[k].relationship_source # "api_link"
  /\ \E j \in 1..Len(unique_relationships) :
       LET same == SameKey(unique_relationships[j].value)
       IN /\ \A k \in same : relationships[k].relationship_source # "api_link"
          /\ Cardinality(same) >= 2

TextDerived(rel) == rel.relationship_source \in {"description_text", "comment_text"}

\* C7: no relationship that get_issue_relationships takes from a pattern
\* match, in a description or in a comment, has the issue itself as target:
\* neither in the evidence nor in the result.
C7_NoSelfReference ==
  script = "create-map" =>
    /\ \A k \in 1..Len(relationships) :
         TextDerived(relationships[k]) =>
           relationships[k].target_issue_iid # relationships[k].source_issue_iid
    /\ \A j \in 1..Len(unique_relationships) :
         TextDerived(unique_relationships[j].value) =>
           unique_relationships[j].value.target_issue_iid
             # unique_relationships[j].value.source_issue_iid

\* the issue names itself in its description and in a comment, next to
\* another issue, and the extraction is over
C7_Witness ==
  /\ script = "create-map" /\ pc = "extracted"
  /\ \E k \in 1..Len(gitlab_issues[1].description) :
       IntOfDigits(gitlab_issues[1].description[k].digits) = gitlab_issues[1].iid
  /\ \E n \in 1..Len(gitlab_issues[1].notes) :
       \E k \in 1..Len(gitlab_issues[1].notes[n]) :
         IntOfDigits(gitlab_issues[1].notes[n][k].digits) = gitlab_issues[1].iid
  /\ \E j \in 1..Len(unique_relationships) :
       TextDerived(unique_relationships[j].value)

PagerScripts == {"relationship-pages", "milestones-pages", "comment-pages"}

\* C8: when the collection is served as k pages, the first k-1 of the page
\* size asked for and the last one shorter but not empty, and every request
\* is answered with its page, each paginated_api_call returns after exactly
\* k requests with the records of all the pages: as many as the page sizes
\* add up to.
C8_PaginationTermination ==
  (/\ script \in PagerScripts /\ pc = "returned"
   /\ server.per_page = PerPage /\ server.total % PerPage # 0
   /\ \A j \in 1..Len(calls) : calls[j].answer = "ok")
  => /\ Len(calls) = (server.total \div PerPage) + 1
     /\ RecordCount(results) = server.total
     /\ results = [p \in 1..Len(calls) |-> ServerPage(server.total, server.per_page, p)[1]]

\* pages of 100, 100 and 37 records: 3 requests, 237 records
C8_Witness ==
  /\ script \in PagerScripts /\ pc = "returned"
  /\ server.per_page = PerPage /\ server.total = 2 * PerPage + 37
  /\ Len(calls) = 3 /\ \A j \in 1..Len(calls) : calls[j].answer = "ok"
  /\ RecordCount(results) = 237

\* C9: a rate-limit answer (429, or 403 with a rate-limit message) to a
\* request of a paginated_api_call or to the POST of create_github_milestones
\* is followed by a request for the same page or row, made with the records
\* held so far; the call never returns on such an answer.
C9_RateLimitRetried ==
  script \in PagerScripts \cup {"create-milestones"} =>
    \A j \in 1..Len(calls) :
      calls[j].answer \in RateLimited =>
        IF j < Len(calls)
        THEN calls[j + 1].unit = calls[j].unit /\ calls[j + 1].got = calls[j].got
        ELSE pc = "paging" /\ page = calls[j].unit /\ RecordCount(results) = calls[j].got

\* C10: after an answer that says the client is rate-limited until a time R
\* later than the answer, the next request of the client is sent at R or
\* later.
C10_BackoffUntilReset ==
  \A j \in 1..(Len(calls) - 1) :
    (calls[j].limited /\ Ticks(calls[j].reset) > calls[j].done)
      => calls[j + 1].at >= Ticks(calls[j].reset)

\* the rows and the dispositions of run r: of a finished run from the
\* history, of the current run from its variables
RunRows(r) == IF r <= Len(history) THEN history[r].rows ELSE relationships

RunDisp(r) == IF r <= Len(history) THEN history[r].disp ELSE disp

\* C11: a relationship comment that one run has posted for a record is not
\* posted again for the same record by a later run (the later run finds the
\* marker on the target and skips the record).
C11_NoDuplicateComment ==
  script = "relationship" =>
    \A a \in 1..Len(requests), b \in 1..Len(requests) :
      ~(/\ requests[a].run < requests[b].run
        /\ requests[a].row = requests[b].row
        /\ requests[a].call = "comment" /\ requests[b].call = "comment"
        /\ requests[a].answer = "created" /\ requests[b].answer = "created")

\* the endpoint of a relationship is a plain issue of the target tracker
PlainIssue(n) == n \in DOMAIN github_issues /\ github_issues[n] = "issue"

\* a row that a live run hands to apply_issue_relationship and that the
\* function accepts as a dependency
Dependency(rel) ==
  /\ IsInt(rel.src) /\ IsInt(rel.tgt)
  /\ rel.action \in {"Blocked by", "Blocking"}
  /\ rel.type \in {"is_blocked_by", "blocked_by", "depends_on", "relates_to", "blocks"}

\* C12: every dependency POST is sent for a record whose two endpoints are
\* plain issues and carries the global id of the blocking one; a record with
\* an endpoint that is a pull request or cannot be resolved ends as a
\* failure with the message that says so, and no request is sent for it.
C12_FailClosed ==
  script = "relationship" =>
    /\ \A k \in 1..Len(requests) :
         requests[k].call = "dependency" =>
           LET rel == ledger[requests[k].row]
               blocking == IF rel.type = "blocks" THEN IntOf(rel.src) ELSE IntOf(rel.tgt)
           IN /\ PlainIssue(IntOf(rel.src)) /\ PlainIssue(IntOf(rel.tgt))
              /\ requests[k].arg = GlobalId(blocking)
    /\ \A r \in 1..run : \A k \in 1..Len(RunDisp(r)) :
         (~RunMode(r) /\ Dependency(RunRows(r)[k])) =>
           /\ (~PlainIssue(IntOf(RunRows(r)[k].src)) \/ ~PlainIssue(IntOf(RunRows(r)[k].tgt)))
                => RunDisp(r)[k] \in {"no_details", "pull_request"}
           /\ RunDisp(r)[k] \in {"no_details", "pull_request"}
                => \A q \in 1..Len(requests) :
                     ~(requests[q].run = r /\ requests[q].row = k)

\* a live run met a dependency whose target is a pull request or missing,
\* and another live run applied a dependency between two plain issues
C12_Witness ==
  /\ script = "relationship" /\ ~PlainIssue(2)
  /\ \E r \in 1..Len(history) : \E k \in 1..Len(history[r].disp) :
       /\ ~history[r].diagnostic /\ Dependency(history[r].rows[k])
       /\ history[r].disp[k] \in {"no_details", "pull_request"}

Reverse(list) == [k \in 1..Len(list) |-> list[Len(list) + 1 - k]]

\* the title of target number n in a list of targets, "" when n is 0
TitleIn(list, n) ==
  IF n = 0 THEN "" ELSE list[CHOOSE k \in 1..Len(list) : list[k].number = n].title

\* C13: each matcher gives a source a target with exactly its title whenever
\* the target has one, and the title of the match is the same when the
\* targets are listed in the opposite order.
C13_ExactFirstAnyOrder ==
  (script = "match" /\ pc = "matched") =>
    \A k \in 1..Len(gitlab_issues) :
      LET src == gitlab_issues[k]
          list == GithubIssueList(Cardinality(Issues))
          found == IF src.iid \in DOMAIN issue_map THEN issue_map[src.iid] ELSE 0
          wanted == src.milestone
          number == IF wanted.id \in DOMAIN milestone_map
                    THEN milestone_map[wanted.id] ELSE 0
      IN /\ (\E n \in 1..Len(list) : list[n].title = src.title)
              => TitleIn(list, found) = src.title
         /\ TitleIn(list, found)
              = TitleIn(list, FirstTitleMatch(src.title, Reverse(list), 1))
         /\ wanted.id # 0 =>
              /\ (\E n \in 1..Len(github_milestones) :
                    github_milestones[n].title = wanted.title)
                   => TitleIn(github_milestones, number) = wanted.title
              /\ TitleIn(github_milestones, number)
                   = TitleIn(github_milestones,
                             MatchMilestone(wanted.title, Reverse(github_milestones)))

\* the issues of a milestones run that no rule gives a target: the
\* milestone of the issue matches no milestone of the target, or the target
\* has no issue with its number
Unmatched(issues) ==
  { k \in 1..Len(issues) :
      /\ issues[k].milestone.id # 0
      /\ \/ MatchMilestone(issues[k].milestone.title, github_milestones) = 0
         \/ github_issues[issues[k].iid] = "missing" }

\* C14: in a run of apply-milestones or apply-nesting that no remote fault
\* disturbs, no request is sent for a source entity without a target, and
\* the not-found/skipped count the run returns covers every such entity;
\* also when nothing at all could be matched.
C14_UnmatchedReported ==
  (script \in {"milestones", "comment"} /\ faults = 0) =>
    \A r \in 1..Len(history) :
      LET h == history[r]
          sent(k) == \E q \in 1..Len(requests) :
                       requests[q].run = r /\ requests[q].row = k
      IN IF script = "milestones"
         THEN /\ \A k \in Unmatched(h.rows) : ~sent(k)
              /\ h.returned[3] >= Cardinality(Unmatched(h.rows))
         ELSE /\ \A k \in 1..Len(h.rows) : ~sent(k)
              /\ h.returned[3] = Len(h.rows)


\* the command line names no command, a variable the command requires is
\* not set, or a repository URL the command parses is invalid
ConfigurationFailure ==
  \/ args.command = ""
  \/ /\ args.command = "create-map"
     /\ \/ \E v \in {"GITLAB_API_PRIVATE_TOKEN", "GITLAB_API_ENDPOINT", "GITLAB_REPO_URL"} :
             environ[v] = ""
        \/ environ["GITLAB_REPO_URL"] = "https://example"
  \/ /\ args.command = "apply-relationships"
     /\ \/ \E v \in {"GITLAB_API_PRIVATE_TOKEN", "GITLAB_API_ENDPOINT", "GITLAB_REPO_URL"} :
             environ[v] = ""
        \/ /\ ~(args.diagnostic /\ args.skip_github_validation)
           /\ \/ environ["GITHUB_TOKEN"] = ""
              \/ environ["GITHUB_REPO_URL"] \in {"", "https://example"}

SavedBy(r) == IF r < Len(history) THEN history[r + 1].rows ELSE ledger

\* C16: in every finished run of create-milestones, a row loaded as
\* 'created' caused no POST; a row whose creation failed is saved as it was
\* loaded; a row whose creation succeeded is saved as 'created' with the
\* number of the new milestone; and over all runs no row was created twice.
C16_ResumableCreation ==
  script = "create-milestones" =>
    /\ \A r \in 1..Len(history) :
         LET h == history[r]
         IN /\ Len(h.disp) = Len(h.rows) /\ Len(SavedBy(r)) = Len(h.rows)
            /\ \A k \in 1..Len(h.rows) :
                 /\ h.disp[k].status = h.rows[k].status
                 /\ h.rows[k].status = "created" =>
                      h.disp[k].posts = 0 /\ SavedBy(r)[k] = h.rows[k]
                 /\ (h.rows[k].status # "created" /\ ~h.disp[k].created) =>
                      h.disp[k].posts >= 1 /\ SavedBy(r)[k] = h.rows[k]
                 /\ h.disp[k].created =>
                      /\ SavedBy(r)[k].status = "created"
                      /\ SavedBy(r)[k].github_number = StrOf(h.disp[k].number)
                      /\ SavedBy(r)[k].gitlab_id = h.rows[k].gitlab_id
    /\ \A r1, r2 \in 1..Len(history) :
         \A k \in 1..Len(history[r1].rows) :
           (history[r1].disp[k].created /\ history[r2].disp[k].created) => r1 = r2

\* a second run over the map file of a first run in which the creation of a
\* row failed: the second run created that row, and skipped a row that the
\* first run had created or found created
C16_Witness ==
  /\ script = "create-milestones" /\ Len(history) = 2
  /\ \E k \in 1..Len(ledger) :
       /\ ~history[1].disp[k].created /\ history[1].disp[k].posts >= 1
       /\ history[2].disp[k].created
  /\ \E k \in 1..Len(ledger) :
       /\ history[2].rows[k].status = "created"
       /\ history[2].disp[k].posts = 0


\* the relationship kinds with a typed dependency link on the target
BlockingKinds == {"blocks", "is_blocked_by", "blocked_by", "depends_on"}

\* C17: every typed dependency request is sent for a record of a blocking
\* kind, and every request sent for a relates_to, duplicates or
\* is_duplicated_by record is a comment.
C17_TypedLinkOnlyForBlocking ==
  script = "relationship" =>
    \A a \in 1..Len(requests) :
      LET req == requests[a]
          rel == RunRows(req.run)[req.row]
      IN /\ req.call = "dependency" => rel.type \in BlockingKinds
         /\ rel.type \in {"relates_to", "duplicates", "is_duplicated_by"} =>
              req.call = "comment"


\* the records 1..total, each once and in the order of the server
InServerOrder(records, total) ==
  /\ RecordCount(records) = total
  /\ \A j \in 1..Len(records) :
       records[j].first = (IF j = 1 THEN 1 ELSE records[j - 1].last + 1)

\* C18: a paginated_api_call whose requests were all answered with their
\* page returns every record of the collection once and in server order,
\* whatever page size the server uses (the per_page of the request, or its
\* own default when the request names none).
C18_CompleteWhateverPageSize ==
  (/\ script \in PagerScripts /\ pc = "returned"
   /\ \A j \in 1..Len(calls) : calls[j].answer = "ok")
  => InServerOrder(results, server.total)


\* C19: a paginated_api_call that has returned a list to its caller met no
\* request that was rejected (a status other than 200 and the rate limits)
\* or that raised: such a request ends the query with an error, not with the
\* list gathered so far.
C19_NoSilentPartialList ==
  (script \in PagerScripts /\ pc = "returned") =>
    \A j \in 1..Len(calls) : calls[j].answer \notin {"error", "exception"}

\* C20: a request to the target tracker that ended in an exception of the
\* network is sent again for the same record before the record is counted
\* as failed.
C20_NetworkFailureRetried ==
  script = "relationship" =>
    \A a \in 1..Len(requests) :
      requests[a].answer = "exception" =>
        \E b \in (a + 1)..Len(requests) :
          /\ requests[b].run = requests[a].run /\ requests[b].row = requests[a].row
          /\ requests[b].call = requests[a].call /\ requests[b].on = requests[a].on


\* C21: every paginated_api_call eventually returns, whatever the endpoint
\* answers.
C21_PaginationReturns == <>(pc = "returned")


\* C22: the rows loaded from a ledger file are the rows that were written to
\* it, with the same columns in the same order; and the rewrite of the file
\* at the end of a run keeps what was loaded.
C22_LedgerRoundTrip ==
  script = "ledger" =>
    /\ pc \in {"loaded", "rewritten", "reloaded"} => gitlab_comments = rows
    /\ pc = "reloaded" => gitlab_comments = history[2].rows


\* the rows recorded for note `id`
RowsOf(id) == { k \in 1..Len(ledger) : ledger[k].gitlab_comment_id = id }

C25_NoDuplicateRow ==
  (script = "comment-create-map" /\ pc = "saved") =>
    \A j, k \in 1..Len(ledger) :
      ledger[j].gitlab_comment_id = ledger[k].gitlab_comment_id => j = k


\* C26: after an interruption of create_github_milestones the map file holds
\* the rows as the run loaded them or the rows as the run rewrites them,
\* and no row whose milestone a run has created is created again by a later
\* run.
C26_CancellationSafe ==
  script = "create-milestones" =>
    /\ pc = "interrupted" =>
         ledger \in {history[Len(history)].rows, rows}
    /\ \A r1, r2 \in 1..Len(history) :
         \A k \in 1..Len(history[r1].disp) :
           (/\ r1 < r2 /\ k <= Len(history[r2].disp)
            /\ history[r1].disp[k].created) => ~history[r2].disp[k].created


\* the mutating requests run r has sent
UpdatesOf(r) == SelectSeq(requests, LAMBDA q : q.run = r)

C28_ParentIsRecorded ==
  (script = "comment-create-map" /\ pc = "saved") =>
    \A k \in 1..Len(ledger) :
      ledger[k].gitlab_parent_comment_id # "" =>
        \E j \in 1..Len(ledger) :
          /\ ledger[j].gitlab_comment_id = ledger[k].gitlab_parent_comment_id
          /\ ledger[j].gitlab_issue_iid = ledger[k].gitlab_issue_iid


\* C29: every dependency request sent for a row of kind 'blocks' is made on
\* the row's target issue with the global id of the source issue as
\* blocker; for a row of kind 'is_blocked_by', 'blocked_by' or 'depends_on'
\* it is made on the source issue with the global id of the target issue;
\* the blocker sent is never an issue number.
C29_DependencyDirection ==
  script = "relationship" =>
    \A k \in 1..Len(requests) :
      requests[k].call = "dependency" =>
        LET rel == ledger[requests[k].row]
            src == IntOf(rel.src)
            tgt == IntOf(rel.tgt)
        IN /\ rel.type = "blocks" =>
                requests[k].on = tgt /\ requests[k].arg = GlobalId(src)
           /\ rel.type \in {"is_blocked_by", "blocked_by", "depends_on"} =>
                requests[k].on = src /\ requests[k].arg = GlobalId(tgt)
           /\ requests[k].arg \notin {src, tgt}

\* a dependency has been created for a 'blocks' row and for an
\* 'is_blocked_by' row
C29_Witness ==
  /\ script = "relationship"
  /\ \E k1, k2 \in 1..Len(requests) :
       /\ requests[k1].call = "dependency" /\ requests[k1].answer = "created"
       /\ ledger[requests[k1].row].type = "blocks"
       /\ requests[k2].call = "dependency" /\ requests[k2].answer = "created"
       /\ ledger[requests[k2].row].type = "is_blocked_by"


\* the sum of the counts a run returned
RECURSIVE SumOfCounts(_)
SumOfCounts(counts) ==
  IF counts = <<>> THEN 0 ELSE Head(counts) + SumOfCounts(Tail(counts))

\* C30: the counts an apply run returns add up to the number of records the
\* run has read (rows of the map for apply-relationships and apply-nesting,
\* source issues for apply-milestones).
C30_CountConservation ==
  script \in {"relationship", "comment", "milestones"} =>
    \A r \in 1..Len(history) :
      SumOfCounts(history[r].returned) = Len(history[r].rows)

====
